---- MODULE Spec2Model ----
(***************************************************************************)
(* Model of the structured-interview engine (IntelligentConversationEngine *)
(* in app/intelligent_conversation_engine.py) and of the WhatsApp webhook  *)
(* entry path (MetaWhatsAppService in app/whatsapp_meta_service.py).       *)
(*                                                                         *)
(* Free text is abstracted to the classes the code distinguishes: a field  *)
(* value is "" (the initial value), "ans" (text with none of the keywords  *)
(* the code looks for) or a class token such as "normal", "issue", "yes".  *)
(***************************************************************************)
EXTENDS Integers, Sequences, FiniteSets, TLC

VARIABLES
    store,        \* the patient document in the record store (Firestore)
    created,      \* whether the patient document exists
    reply,        \* the result returned by the last process_patient_response
    emr,          \* background generate_emr task: "idle", "queued", "loaded"
    emrData,      \* what the generate_emr task read and is about to write
    assessCalls,  \* invocations of _generate_assessment on the current visit
    resetRec,     \* the record as _start_new_visit left it in the last turn
    step,         \* the operation that produced the current state
    prev,         \* the stored record before the last operation
    devs,         \* inputs so far that departed from the plain interview
    work,         \* the turn in flight: its input and the result it has in memory
    input,        \* what the last turn was given: the utterance, the oracles'
                  \* answers and the faults that struck it
    rRec,         \* resolver harness: the record the resolver is first given
    rAfter,       \* resolver harness: the record as the calls so far left it
    rStart,       \* resolver harness: the start index of every call
    rIdx,         \* resolver harness: the indices the calls returned, in order
    hook,         \* webhook deliveries: position in handle_webhook, message id, times
    lockOwner,    \* the delivery holding the patient's asyncio.Lock, 0 when free
    processed,    \* processed_messages: message id -> time marked, -1 when absent
    lastResp,     \* last_response of the patient: (message id, time)
    api,          \* calls of the /conversation endpoint: position in the turn
    now,          \* the clock, in seconds
    ticks,        \* clock advances so far
    chat,         \* calls to the OpenAI chat service: position, kind, attempts
    permits,      \* the value of openai_semaphore: the permits left
    others,       \* permits held by the calls of other conversations
    strays        \* executor threads still in a request whose wait timed out

engineVars == <<store, created, reply, emr, emrData, assessCalls, resetRec, step, prev,
                devs, work, input>>

resolverVars == <<rRec, rAfter, rStart, rIdx>>

hookVars == <<hook, lockOwner, processed, lastResp, api, now, ticks>>

oracleVars == <<chat, permits, others, strays>>

vars == <<engineVars, resolverVars, hookVars, oracleVars>>

---------------------------------------------------------------------------
(* Bounds of the model *)

MaxVisits == 3          \* visits opened by _start_new_visit that are explored
MaxLaterTurns == 2      \* turns explored inside a visit after the first one
MaxOnboardingTurns == 2 \* onboarding turns explored per visit
MaxDeviations == 2      \* departures from the plain interview explored per run
MaxResolverCalls == 2     \* successive resolver calls on one record
NumDeliveries == 3      \* webhook deliveries for the one patient
NumApiCalls == 1        \* calls of the /conversation route for the patient
MaxTicks == 2           \* advances of the clock
NumCalls == 2           \* chat calls of this conversation that are followed

---------------------------------------------------------------------------
(* Question catalog: _initialize_questions.  The list holds the ids 4..54  *)
(* in order, so the question at index i has id i + 4; every question has a *)
(* target field of its own, held in ans[i].                                *)

NumQuestions == 51
FirstQuestionId == 4
DemographicsEnd == 6

QId(i) == i + FirstQuestionId

\* the one element of a singleton set
The(S) == CHOOSE x \in S : TRUE

QIdx == 0..(NumQuestions - 1)

Phases == <<"onboarding", "demographics", "problem_collection",
            "questionnaire", "assessment", "completed">>

PhaseRank(p) == CHOOSE k \in 1..Len(Phases) : Phases[k] = p

ValidAlerts == {"red", "yellow", "green"}

---------------------------------------------------------------------------
(* Issue sub-questionnaires: _get_issue_specific_questions.  Every issue  *)
(* question has an id and a target field issue_specific.<issue>.<name> of  *)
(* its own; the model keys both by the id.                                 *)

IsSecondOrMoreOf(pn) == pn \in {"2", "3"}

IssueQuestions(issue, pn) ==
    CASE issue = "sugar" -> <<"sugar_1", "sugar_2", "sugar_3", "sugar_4">>
      [] issue = "bp" -> <<"bp_1", "bp_2", "bp_3", "bp_4", "bp_5", "bp_6">>
      [] issue = "anemia" ->
            <<"anemia_1">>
            \o (IF IsSecondOrMoreOf(pn) THEN <<"anemia_2">> ELSE <<>>)
            \o <<"anemia_3", "anemia_4", "anemia_5", "anemia_6", "anemia_7", "anemia_8">>
      [] issue = "water" -> <<"water_1", "water_2", "water_3", "water_4">>
      [] issue = "bleeding" ->
            <<"bleeding_1", "bleeding_2", "bleeding_3", "bleeding_4", "bleeding_5", "bleeding_6">>
      [] issue = "pain" -> <<"pain_1", "pain_2", "pain_3">>
      [] issue = "vomit" -> <<"vomit_1", "vomit_2", "vomit_3", "vomit_4">>
      [] issue = "fever" -> <<"fever_1", "fever_2", "fever_3", "fever_4", "fever_5">>
      [] issue = "movement" -> <<"movement_1", "movement_2">>
      [] issue = "growth" -> <<"growth_1", "growth_2", "growth_3">>
      [] OTHER -> <<>>

IssueTypes == {"sugar", "bp", "anemia", "water", "bleeding", "pain", "vomit",
               "fever", "movement", "growth", "checkup"}

SeqRange(s) == {s[k] : k \in 1..Len(s)}

IssueQuestionIds == UNION {SeqRange(IssueQuestions(t, "2")) : t \in IssueTypes}

NoIssueAnswers == [q \in IssueQuestionIds |-> ""]

---------------------------------------------------------------------------
(* The record: _initialize_patient_data.  issue_specific, assessment_summary *)
(* and has_greeted are keys the handlers add later; they are absent from   *)
(* the initial dictionary, which the model writes as their empty value.    *)

InitializePatientData(stamp) == [
    name |-> "", age |-> "", phone |-> "",
    has_greeted |-> FALSE,
    ans |-> [i \in QIdx |-> ""],
    number_of_children |-> 0,
    first_pregnancy |-> FALSE,
    lmp_remembered |-> FALSE,
    trimester |-> "",
    has_twins |-> FALSE,
    followup_needed |-> FALSE,
    followup_asked |-> FALSE,
    followup_answer |-> "",
    problem_description |-> "",
    detected_issue |-> "",
    isq |-> NoIssueAnswers,
    isq_index |-> 0,
    isq_complete |-> FALSE,
    issue_specific |-> NoIssueAnswers,
    conversation_history |-> <<>>,
    current_phase |-> "onboarding",
    current_question_index |-> 0,
    assessment_complete |-> FALSE,
    alert_level |-> "none",
    assessment_summary |-> "",
    visit_number |-> 1,
    visit_history |-> <<>>,
    created_at |-> stamp ]

---------------------------------------------------------------------------
(* The next-question resolver: _get_next_valid_question_index *)

PregnancyNumberInt(pn) ==
    CASE pn = "1" -> 1 [] pn = "2" -> 2 [] pn = "3" -> 3 [] OTHER -> 0

\* a variant that takes every pregnancy for a second or later one
IsAlwaysSecondOrMore(rec) == TRUE

IsSecondOrMore(rec) == PregnancyNumberInt(rec.ans[1]) >= 2

\* number_of_children as the resolver computes it, and writes back
ComputedChildren(rec) ==
    IF rec.number_of_children = 0 /\ PregnancyNumberInt(rec.ans[1]) > 1
    THEN PregnancyNumberInt(rec.ans[1]) - 1
    ELSE rec.number_of_children

\* a variant that reads the stored number_of_children
StoredChildren(rec) == rec.number_of_children

\* the number_of_children the obstetric-block conditions read
GatingChildren(rec) == ComputedChildren(rec)

LmpRemembered(rec) == rec.lmp_remembered \/ rec.ans[3] # ""

MonthInt(m) ==
    CASE m = "2" -> 2 [] m = "5" -> 5 [] m = "8" -> 8 [] m = "10" -> 10 [] OTHER -> 0

GetPregnancyTrimester(rec) ==
    IF rec.trimester = "unknown" /\ MonthInt(rec.ans[5]) > 0
    THEN (IF MonthInt(rec.ans[5]) <= 3 THEN "first"
          ELSE IF MonthInt(rec.ans[5]) <= 6 THEN "second"
          ELSE IF MonthInt(rec.ans[5]) <= 9 THEN "third"
          ELSE rec.trimester)
    ELSE rec.trimester

HasTwins(rec) == rec.has_twins

\* a variant that never skips the obstetric history
SkipNoObstetricHistory(rec, noc) == FALSE

\* skip_obstetric_history
SkipObstetricHistory(rec, noc) == rec.first_pregnancy \/ noc = 0

\* use_single_child_obstetric
UseSingleChildObstetric(noc) == noc = 1

\* a variant that never chooses the block of two or more children
UseNoMultipleChildrenObstetric(noc) == FALSE

\* use_multiple_children_obstetric
UseMultipleChildrenObstetric(noc) == noc >= 2

Eligible(i, rec) ==
    LET id == QId(i)
        noc == GatingChildren(rec)
        tri == GetPregnancyTrimester(rec)
        skipOb == SkipObstetricHistory(rec, noc)
    IN  /\ ~(id = 6 /\ ~IsSecondOrMore(rec))
        /\ ~(id = 8 /\ LmpRemembered(rec))
        /\ ~(skipOb /\ 25 <= id /\ id <= 43)
        /\ ~(~skipOb /\ UseSingleChildObstetric(noc) /\ 35 <= id /\ id <= 43)
        /\ ~(~skipOb /\ UseMultipleChildrenObstetric(noc) /\ 25 <= id /\ id <= 34)
        /\ ~(tri = "first" /\ 15 <= id /\ id <= 24)
        /\ ~(tri \in {"second", "third"} /\ 10 <= id /\ id <= 14)
        /\ ~(id = 19 /\ rec.ans[14] = "")
        /\ ~(id = 21 /\ rec.ans[16] # "issue")
        /\ ~(id = 24 /\ tri # "third")
        /\ ~(id = 50 /\ ~HasTwins(rec))
        /\ ~(id = 29 /\ rec.ans[24] \notin {"normal", "both"})
        /\ ~(id = 30 /\ rec.ans[24] # "operation")
        /\ ~(id = 39 /\ rec.ans[33] \notin {"normal", "both"})
        /\ ~(id = 40 /\ rec.ans[33] \notin {"operation", "both"})

\* the for loop from index i on: the first question that is not skipped
RECURSIVE ScanFrom(_, _)
ScanFrom(i, rec) ==
    IF i >= NumQuestions THEN NumQuestions
    ELSE IF Eligible(i, rec) THEN i
    ELSE ScanFrom(i + 1, rec)

NextValidIndex(start, rec) == ScanFrom(start, rec)

\* the record after a resolver call: number_of_children written back
AfterResolve(rec) == [rec EXCEPT !.number_of_children = ComputedChildren(rec)]

\* a variant that stores the start index without asking the resolver
SetIndexUnchecked(start, rec) == [rec EXCEPT !.current_question_index = start]

\* patient_data["current_question_index"] = _get_next_valid_question_index(start)
SetNextIndex(start, rec) ==
    [AfterResolve(rec) EXCEPT !.current_question_index = NextValidIndex(start, rec)]

---------------------------------------------------------------------------
(* One utterance and the outcomes of the external calls of its turn.       *)
(*   text     class of the raw text ("" is empty or whitespace)            *)
(*   apology  the text holds an apology keyword and is under 50 characters *)
(*   ext      extraction oracle: "valid" (is_valid_answer with a value),   *)
(*            "invalid" (is_valid_answer false or an empty value), "raw"   *)
(*            (no JSON in the answer, or the call failed: raw text saved)  *)
(*   value    the value the extraction oracle returned                     *)
(*   num      first run of digits in the text, 0 when there is none        *)
(*   month    pregnancy-month oracle, -1 when the call or parse failed     *)
(*   twins    twins oracle: "true", "false" or "fail"                      *)
(*   sup      onboarding items the text supplies                           *)
(*   alert    alert_level the assessment oracle returned                   *)
(*   exc      where the turn raised: "none", "pre" (before the index      *)
(*            moves and before the phase handler runs) or "post" (in the   *)
(*            phase handler, after the index has moved)                    *)
(*   fault    where the record store failed: "none", "load" (get_patient   *)
(*            alone), "load_create" (get_patient and create_patient) or    *)
(*            "save" (update_patient)                                      *)
(*   dev      1 when the input departs from the plain interview            *)

BaseInput == [
    text |-> "ans", apology |-> FALSE, ext |-> "valid", value |-> "ans",
    num |-> 0, firstKw |-> FALSE, twinsKw |-> FALSE,
    hasDate |-> FALSE, notRem |-> FALSE, calcTri |-> "",
    month |-> -1, twins |-> "false", sup |-> {},
    alert |-> "yellow", exc |-> "none", fault |-> "none", dev |-> 0 ]

\* _extract_information_intelligently, on the question at index i
ExtractInformation(rec, i, u) ==
    IF u.apology THEN rec
    ELSE IF u.ext = "valid" /\ u.value # "" THEN [rec EXCEPT !.ans[i] = u.value]
    ELSE IF u.ext = "raw" THEN [rec EXCEPT !.ans[i] = u.text]
    ELSE rec

NumStr(n) == CASE n = 1 -> "1" [] n = 2 -> "2" [] n = 3 -> "3" [] OTHER -> "ans"

\* _extract_pregnancy_number
DigitsStep(rec, u) ==
    IF u.num > 0
    THEN [rec EXCEPT !.ans[1] = NumStr(u.num),
                     !.first_pregnancy = (u.num = 1),
                     !.number_of_children = IF u.num > 1 THEN u.num - 1 ELSE 0]
    ELSE rec

FirstKeywordStep(rec, u) ==
    IF u.firstKw /\ rec.ans[1] = ""
    THEN [rec EXCEPT !.ans[1] = "1", !.first_pregnancy = TRUE, !.number_of_children = 0]
    ELSE rec

TwinsKeywordStep(rec, u) ==
    IF u.twinsKw THEN [rec EXCEPT !.has_twins = TRUE] ELSE rec

ExtractPregnancyNumber(rec, u) ==
    The({TwinsKeywordStep(r2, u) :
            r2 \in {FirstKeywordStep(r1, u) : r1 \in {DigitsStep(rec, u)}}})

\* _extract_lmp_info
ExtractLmpInfo(rec, u) ==
    IF u.hasDate /\ ~u.notRem
    THEN [rec EXCEPT !.lmp_remembered = TRUE, !.ans[3] = u.text,
                     !.trimester = IF u.calcTri # "" THEN u.calcTri ELSE @]
    ELSE IF u.notRem THEN [rec EXCEPT !.lmp_remembered = FALSE]
    ELSE rec

MonthStr(m) ==
    CASE m = 2 -> "2" [] m = 5 -> "5" [] m = 8 -> "8" [] m = 10 -> "10" [] OTHER -> "0"

TrimesterOfMonth(m) ==
    IF 1 <= m /\ m <= 3 THEN "first"
    ELSE IF 4 <= m /\ m <= 6 THEN "second"
    ELSE IF 7 <= m /\ m <= 9 THEN "third"
    ELSE "unknown"

\* _extract_pregnancy_month
ExtractPregnancyMonth(rec, u) ==
    IF u.month < 0 THEN rec
    ELSE [rec EXCEPT !.ans[5] = MonthStr(u.month), !.trimester = TrimesterOfMonth(u.month)]

\* _check_for_twins
CheckForTwins(rec, u) ==
    IF u.twins = "fail" THEN rec ELSE [rec EXCEPT !.has_twins = (u.twins = "true")]

\* _handle_recent_scan_followup
HandleRecentScanFollowup(rec, u) ==
    LET has_recent_scan == IF rec.ans[20] # "" THEN rec.ans[20] = "yes" ELSE u.text = "yes"
    IN  IF has_recent_scan /\ ~rec.followup_asked
        THEN [rec EXCEPT !.followup_needed = TRUE, !.followup_asked = FALSE]
        ELSE [rec EXCEPT !.followup_needed = FALSE]

---------------------------------------------------------------------------
(* Visit lifecycle: _archive_current_visit, _start_new_visit *)

HasVisit(rec, n) == \E k \in 1..Len(rec.visit_history) : rec.visit_history[k].visit_number = n

VisitSnapshot(rec) == [
    visit_number |-> rec.visit_number,
    alert_level |-> rec.alert_level,
    assessment_summary |-> rec.assessment_summary,
    problem_description |-> rec.problem_description,
    name |-> rec.name, age |-> rec.age, phone |-> rec.phone,
    ans |-> rec.ans,
    number_of_children |-> rec.number_of_children,
    first_pregnancy |-> rec.first_pregnancy,
    lmp_remembered |-> rec.lmp_remembered,
    trimester |-> rec.trimester,
    has_twins |-> rec.has_twins,
    followup_answer |-> rec.followup_answer,
    conversation_history |-> rec.conversation_history ]

AppendVisit(rec) == [rec EXCEPT !.visit_history = Append(@, VisitSnapshot(rec))]

\* a variant without the check for an entry of the current visit
ArchiveAlways(rec) == AppendVisit(rec)

ArchiveCurrentVisit(rec) ==
    IF HasVisit(rec, rec.visit_number) THEN rec ELSE AppendVisit(rec)

\* patient_data.update(new_patient_data): every key of the fresh dictionary
\* is overwritten, every other key of the record stays
ResetKeys(rec, fresh) ==
    [fresh EXCEPT !.issue_specific = rec.issue_specific,
                  !.assessment_summary = rec.assessment_summary,
                  !.has_greeted = rec.has_greeted]

\* a variant that keeps the creation time of the fresh dictionary
FreshVisitRestamped(rec) ==
    [InitializePatientData("t1") EXCEPT
        !.name = rec.name, !.age = rec.age, !.phone = rec.phone,
        !.visit_number = rec.visit_number + 1,
        !.visit_history = rec.visit_history]

\* the fresh dictionary with what _start_new_visit preserves put into it
FreshVisit(rec) ==
    [InitializePatientData("t1") EXCEPT
        !.name = rec.name, !.age = rec.age, !.phone = rec.phone,
        !.visit_number = rec.visit_number + 1,
        !.visit_history = rec.visit_history,
        !.created_at = rec.created_at]

ResetState(rec) ==
    [ResetKeys(rec, FreshVisit(rec)) EXCEPT
        !.current_phase = "onboarding", !.current_question_index = 0,
        !.assessment_complete = FALSE, !.alert_level = "none",
        !.has_greeted = FALSE]

StartNewVisit(rec) ==
    The({ResetState(r1) :
            r1 \in {IF rec.current_phase = "completed" /\ rec.assessment_complete
                    THEN ArchiveCurrentVisit(rec) ELSE rec}})

---------------------------------------------------------------------------
(* Phase handlers.  A handler yields the record it leaves, the reply and   *)
(* the number of _generate_assessment invocations it made.                 *)

MkReply(kind, qid, iq, phase, action) ==
    [kind |-> kind, qid |-> qid, iq |-> iq, next_phase |-> phase, action |-> action]

Out(rec, rep, calls) == [rec |-> rec, reply |-> rep, calls |-> calls]

\* _handle_completed_phase
HandleCompletedPhase(rec) ==
    The({Out(IF HasVisit(r1, r1.visit_number) THEN r1 ELSE ArchiveCurrentVisit(r1),
             MkReply("closing", 0, "", "completed", "end_conversation"), 0) :
            r1 \in {[rec EXCEPT !.assessment_complete = TRUE,
                                !.current_phase = "completed"]}})

\* _handle_assessment_phase
HandleAssessmentPhase(rec, u) ==
    IF rec.assessment_complete
    THEN HandleCompletedPhase([rec EXCEPT !.current_phase = "completed"])
    ELSE Out([rec EXCEPT !.alert_level = u.alert, !.assessment_complete = TRUE,
                         !.current_phase = "completed", !.assessment_summary = "summary"],
             MkReply("advice", 0, "", "completed", "generate_emr"), 1)

QuestionReply(rec, phase) ==
    MkReply("question", QId(rec.current_question_index), "", phase, "continue_conversation")

\* the catalog part of _handle_questionnaire_phase, after the follow-up part
AskOrAssess(rec, u) ==
    The({IF r2.current_question_index >= NumQuestions
         THEN HandleAssessmentPhase([r2 EXCEPT !.current_phase = "assessment"], u)
         ELSE Out(r2, QuestionReply(r2, "questionnaire"), 0) :
            r2 \in {SetNextIndex(rec.current_question_index, rec)}})

\* the follow-up answer is stored and the cursor moves past Q24
StoreFollowupAnswer(rec, u) ==
    The({SetNextIndex(r.current_question_index + 1, r) :
            r \in {[rec EXCEPT !.followup_answer = u.text,
                               !.followup_needed = FALSE,
                               !.followup_asked = FALSE]}})

\* _handle_questionnaire_phase
HandleQuestionnairePhase(rec, u) ==
    IF rec.followup_needed /\ ~rec.followup_asked
    THEN Out([rec EXCEPT !.followup_asked = TRUE],
             MkReply("followup", 0, "", "questionnaire", "continue_conversation"), 0)
    ELSE The({AskOrAssess(r1, u) :
                r1 \in {IF rec.followup_needed THEN StoreFollowupAnswer(rec, u) ELSE rec}})

\* _handle_demographics_phase
HandleDemographicsPhase(rec) ==
    The({IF r1.current_question_index >= DemographicsEnd
         THEN Out([r1 EXCEPT !.current_phase = "problem_collection"],
                  MkReply("ask_problem", 0, "", "problem_collection",
                          "continue_conversation"), 0)
         ELSE Out(r1, QuestionReply(r1, "demographics"), 0) :
            r1 \in {SetNextIndex(rec.current_question_index, rec)}})

\* a variant that asks for the age before the name
MissingInfoAgeFirst(rec) ==
    IF rec.age = "" THEN "ask_age"
    ELSE IF rec.name = "" THEN "ask_name"
    ELSE IF rec.phone = "" THEN "ask_phone"
    ELSE ""

\* the first of name, age, phone that is still missing
MissingInfo(rec) ==
    IF rec.name = "" THEN "ask_name"
    ELSE IF rec.age = "" THEN "ask_age"
    ELSE IF rec.phone = "" THEN "ask_phone"
    ELSE ""

\* onboarding complete: on to the catalog from index 0
StartDemographics(rec) ==
    The({Out(r2, QuestionReply(r2, "demographics"), 0) :
            r2 \in {The({SetNextIndex(0, r) :
                            r \in {[rec EXCEPT !.current_phase = "demographics"]}})}})

\* _handle_onboarding_phase
HandleOnboardingPhase(rec, u) ==
    The({IF MissingInfo(r1) # ""
         THEN Out([r1 EXCEPT !.has_greeted = TRUE],
                  MkReply(MissingInfo(r1), 0, "", "onboarding", "continue_conversation"), 0)
         ELSE StartDemographics(r1) :
            r1 \in {[rec EXCEPT
                        !.name = IF @ = "" /\ "name" \in u.sup THEN "name" ELSE @,
                        !.age = IF @ = "" /\ "age" \in u.sup THEN "age" ELSE @,
                        !.phone = IF @ = "" /\ "phone" \in u.sup THEN "phone" ELSE @]}})

\* _detect_issue_type: the first keyword family found in the text, else checkup
DetectIssueType(text) == IF text \in IssueTypes THEN text ELSE "checkup"

\* the issue questions that carry a condition
IsConditional(q) == q \in {"anemia_4", "water_3", "pain_3"}

\* a variant that leaves out the third bleeding question
ShouldAskButOne(q, isq) == q # "bleeding_3"

\* the conditional issue questions, decided on the answers recorded so far
ShouldAsk(q, isq) ==
    CASE q = "anemia_4" -> isq["anemia_3"] \notin {"", "neg"}
      [] q = "water_3" -> isq["water_2"] # "light"
      [] q = "pain_3" -> isq["pain_1"] = "naalon"
      [] OTHER -> TRUE

\* the while loop: first position from cur on (0-based) that is asked
RECURSIVE FirstAskable(_, _, _)
FirstAskable(iqs, cur, isq) ==
    IF cur >= Len(iqs) THEN Len(iqs)
    ELSE IF ShouldAsk(iqs[cur + 1], isq) THEN cur
    ELSE FirstAskable(iqs, cur + 1, isq)

SaveIssueAnswer(rec, q, text) ==
    [rec EXCEPT !.issue_specific[q] = text, !.isq[q] = text]

\* a variant that falls back to phase demographics
ToDemographics(rec, start) ==
    The({SetNextIndex(start, r) : r \in {[rec EXCEPT !.current_phase = "demographics"]}})

\* the catalog resumes at index 6 in phase questionnaire
ToQuestionnaire(rec, start) ==
    The({SetNextIndex(start, r) : r \in {[rec EXCEPT !.current_phase = "questionnaire"]}})

\* the end of the sub-questionnaire: on to the catalog from index 6
FinishIssueQuestions(rec, u) ==
    The({IF r1.current_question_index < NumQuestions
         THEN Out(r1, QuestionReply(r1, "questionnaire"), 0)
         ELSE HandleAssessmentPhase([r1 EXCEPT !.current_phase = "assessment"],
                                    [u EXCEPT !.text = ""]) :
            r1 \in {ToQuestionnaire([rec EXCEPT !.isq_complete = TRUE], DemographicsEnd)}})

\* the loop found a question to ask at position k, or ran off the end
AskIssueOrFinish(rec, u, iqs, k) ==
    IF k < Len(iqs)
    THEN Out([rec EXCEPT !.isq_index = k + 1],
             MkReply("issue_question", 0, iqs[k + 1], "problem_collection",
                     "continue_conversation"), 0)
    ELSE The({FinishIssueQuestions(r3, u) :
                r3 \in {IF u.text # ""
                        THEN SaveIssueAnswer([rec EXCEPT !.isq_index = k], iqs[k], u.text)
                        ELSE [rec EXCEPT !.isq_index = k]}})

\* first block: an issue question is pending (cur < len)
ContinueIssueQuestions(rec, u, iqs) ==
    The({The({AskIssueOrFinish(r1, u, iqs, k) :
                k \in {FirstAskable(iqs, rec.isq_index, r1.isq)}}) :
            r1 \in {IF rec.isq_index > 0 /\ u.text # ""
                    THEN SaveIssueAnswer(rec, iqs[rec.isq_index], u.text) ELSE rec}})

\* second block: the cursor is at or past the end of the list
CloseIssueQuestions(rec, u, iqs) ==
    The({FinishIssueQuestions(r1, u) :
            r1 \in {IF u.text # "" /\ rec.isq_index = Len(iqs)
                    THEN SaveIssueAnswer(rec, iqs[rec.isq_index], u.text) ELSE rec}})

\* the complaint arrives: it is stored and classified
CollectProblem(rec, u, issue, qs) ==
    IF qs # <<>> /\ issue # "checkup"
    THEN Out([rec EXCEPT !.problem_description = u.text, !.detected_issue = issue,
                         !.isq_index = 1],
             MkReply("issue_question", 0, qs[1], "problem_collection",
                     "continue_conversation"), 0)
    ELSE The({Out(r2, QuestionReply(r2, "questionnaire"), 0) :
                r2 \in {ToQuestionnaire([rec EXCEPT !.problem_description = u.text,
                                                    !.detected_issue = issue],
                                        DemographicsEnd)}})

\* _handle_problem_collection_phase
HandleProblemCollectionPhase(rec, u) ==
    IF rec.isq_complete
    THEN The({HandleQuestionnairePhase(r, u) : r \in {ToQuestionnaire(rec, DemographicsEnd)}})
    ELSE The({
        IF rec.detected_issue # "" /\ iqs # <<>> /\ rec.isq_index < Len(iqs)
        THEN ContinueIssueQuestions(rec, u, iqs)
        ELSE IF rec.detected_issue # "" /\ iqs # <<>>
        THEN CloseIssueQuestions(rec, u, iqs)
        ELSE IF rec.problem_description = ""
        THEN IF u.text # ""
             THEN The({CollectProblem(rec, u, issue, IssueQuestions(issue, rec.ans[1])) :
                         issue \in {DetectIssueType(u.text)}})
             ELSE Out(rec, MkReply("ask_problem", 0, "", "problem_collection",
                                   "continue_conversation"), 0)
        ELSE The({HandleQuestionnairePhase(r, u) : r \in {ToQuestionnaire(rec, 0)}}) :
        iqs \in {IssueQuestions(rec.detected_issue, rec.ans[1])}})

\* _determine_next_response
DetermineNextResponse(rec, u) ==
    CASE rec.current_phase = "onboarding" -> HandleOnboardingPhase(rec, u)
      [] rec.current_phase = "demographics" -> HandleDemographicsPhase(rec)
      [] rec.current_phase = "problem_collection" -> HandleProblemCollectionPhase(rec, u)
      [] rec.current_phase = "questionnaire" -> HandleQuestionnairePhase(rec, u)
      [] rec.current_phase = "assessment" -> HandleAssessmentPhase(rec, u)
      [] OTHER -> HandleCompletedPhase(rec)

---------------------------------------------------------------------------
(* process_patient_response *)

Extracts(pd, u) ==
    /\ pd.current_phase \in {"demographics", "questionnaire"}
    /\ pd.current_question_index < NumQuestions
    /\ u.text # ""

\* lines 134-158: the special handling of the question at index i
SpecialHandling(rec, i, u) ==
    IF i = 1 THEN ExtractPregnancyNumber(rec, u)
    ELSE IF i = 3 THEN ExtractLmpInfo(rec, u)
    ELSE IF i = 5 THEN ExtractPregnancyMonth(rec, u)
    ELSE IF QId(i) = 16 THEN CheckForTwins(rec, u)
    ELSE IF QId(i) = 24
    THEN The({HandleRecentScanFollowup(r, u) : r \in {CheckForTwins(rec, u)}})
    ELSE rec

\* lines 129-158: the extraction and the special handling of the question
AfterExtraction(pd, u) ==
    The({SpecialHandling(q1, pd.current_question_index, u) :
            q1 \in {ExtractInformation(pd, pd.current_question_index, u)}})

\* a variant that leaves the cursor where it is in every turn
AdvanceIndexNever(pd) == pd

\* a variant that moves the cursor on whether or not a follow-up is due
AdvanceIndexAlways(pd) == SetNextIndex(pd.current_question_index + 1, pd)

\* lines 160-172: the cursor moves on, or stays for the Q24 follow-up
AdvanceIndex(pd) ==
    IF QId(pd.current_question_index) = 24 /\ pd.followup_needed
    THEN pd
    ELSE SetNextIndex(pd.current_question_index + 1, pd)

Result(out, saved) == [out |-> out, saved |-> saved]

\* the questionnaire branch of the except block, the cursor already moved
RecoveryReply(pd, r1) ==
    IF pd.current_question_index < NumQuestions /\ r1.current_question_index < NumQuestions
    THEN Result(Out(r1, QuestionReply(r1, "questionnaire"), 0), TRUE)
    ELSE Result(Out([r1 EXCEPT !.current_phase = "assessment"],
                    MkReply("preparing", 0, "", "assessment", "continue_conversation"), 0),
                TRUE)

\* lines 182-242: the except branch, entered with the record as the turn left it
RecoverFromException(pd, u) ==
    IF pd.current_phase = "questionnaire"
    THEN The({RecoveryReply(pd, r1) :
                r1 \in {IF pd.current_question_index < NumQuestions
                        THEN SetNextIndex(pd.current_question_index + 1, pd) ELSE pd}})
    ELSE The({Result(DetermineNextResponse(pd, v), FALSE) :
                v \in {[u EXCEPT !.text = "", !.sup = {}]}})

\* lines 129-180 and the except branch: from the extraction to the save
RestOfTurn(pd2, u) ==
    IF Extracts(pd2, u)
    THEN The({IF u.exc = "pre" THEN RecoverFromException(pd3, u)
              ELSE The({IF u.exc = "post" THEN RecoverFromException(pd4, u)
                        ELSE Result(DetermineNextResponse(pd4, u), TRUE) :
                          pd4 \in {AdvanceIndex(pd3)}}) :
                pd3 \in {AfterExtraction(pd2, u)}})
    ELSE IF u.exc # "none" THEN RecoverFromException(pd2, u)
    ELSE Result(DetermineNextResponse(pd2, u), TRUE)

TurnResult(pd0, pd1, res) ==
    [rec |-> IF res.saved THEN res.out.rec ELSE pd0,
     reply |-> res.out.reply,
     calls |-> res.out.calls,
     saved |-> res.saved,
     reset |-> pd0.current_phase = "completed",
     afterReset |-> pd1]

\* lines 102-113: the new-visit check and the transcript entry
FromLoaded(pd0, u) ==
    The({The({TurnResult(pd0, pd1, res) :
                res \in {The({RestOfTurn(pd2, u) :
                            pd2 \in {[pd1 EXCEPT !.conversation_history = Append(@, u.text)]}})}}) :
            pd1 \in {IF pd0.current_phase = "completed" THEN StartNewVisit(pd0) ELSE pd0}})

\* create_patient raised: the except block answers from the fresh record
\* and nothing is written
CreateFailed(rec0, u) ==
    The({[rec |-> rec0, reply |-> res.out.reply, calls |-> res.out.calls,
          saved |-> FALSE, reset |-> FALSE, afterReset |-> rec0] :
            res \in {RecoverFromException(InitializePatientData("t0"), u)}})

\* update_patient failed and returned False: the stored record stays
SaveFailed(rec0, tr) == [tr EXCEPT !.rec = rec0, !.saved = FALSE]

\* the whole turn on the stored record rec0 (exists: the document is there);
\* get_patient answers None both for a missing document and when it failed
ProcessPatientResponse(rec0, exists, u) ==
    IF u.fault = "load_create" THEN CreateFailed(rec0, u)
    ELSE The({IF u.fault = "save" THEN SaveFailed(rec0, tr) ELSE tr :
                tr \in {The({FromLoaded(pd0, u) :
                            pd0 \in {IF exists /\ u.fault # "load" THEN rec0
                                     ELSE InitializePatientData("t0")}})}})

---------------------------------------------------------------------------
(* The utterances explored at each position of the interview.  The plain   *)
(* interview (dev = 0) is a second pregnancy in the third trimester with   *)
(* a checkup complaint; every other input is a departure (dev = 1).        *)

Dev(u) == [u EXCEPT !.dev = 1]

With(text, value) == [BaseInput EXCEPT !.text = text, !.value = value]

OnboardingInputs == {
    [BaseInput EXCEPT !.sup = {"name", "age", "phone"}],
    Dev([BaseInput EXCEPT !.sup = {"name"}]),
    Dev([BaseInput EXCEPT !.text = ""]) }

FaultyInputs == {
    Dev([BaseInput EXCEPT !.ext = "invalid"]),
    Dev([BaseInput EXCEPT !.ext = "raw"]),
    Dev([BaseInput EXCEPT !.text = "sorry", !.apology = TRUE]),
    Dev([BaseInput EXCEPT !.text = ""]) }

PregnancyNumberInputs == {
    [BaseInput EXCEPT !.num = 2, !.value = "2"],
    Dev([BaseInput EXCEPT !.num = 1, !.value = "1"]),
    Dev([BaseInput EXCEPT !.num = 3, !.value = "3"]),
    Dev([BaseInput EXCEPT !.value = "3"]),
    Dev([BaseInput EXCEPT !.value = "ans"]),
    Dev([BaseInput EXCEPT !.ext = "invalid", !.firstKw = TRUE]),
    Dev([BaseInput EXCEPT !.num = 2, !.value = "2", !.twinsKw = TRUE]) }

LmpInputs == {
    [BaseInput EXCEPT !.hasDate = TRUE],
    Dev([BaseInput EXCEPT !.hasDate = TRUE, !.calcTri = "first"]),
    Dev([BaseInput EXCEPT !.notRem = TRUE, !.ext = "invalid"]),
    Dev([BaseInput EXCEPT !.ext = "invalid"]) }

MonthInputs == {
    [BaseInput EXCEPT !.month = 8, !.value = "8"],
    Dev([BaseInput EXCEPT !.month = 2, !.value = "2"]),
    Dev([BaseInput EXCEPT !.month = 5, !.value = "5"]),
    Dev([BaseInput EXCEPT !.month = 10, !.value = "10"]),
    Dev([BaseInput EXCEPT !.month = -1, !.value = "2"]) }

TwinsInputs == {
    BaseInput,
    Dev([BaseInput EXCEPT !.twins = "true"]),
    Dev([BaseInput EXCEPT !.twins = "fail"]) }

BloodTestInputs == { BaseInput, Dev([BaseInput EXCEPT !.ext = "invalid"]) }

SugarBpInputs == { BaseInput, Dev(With("issue", "issue")) }

RecentScanInputs == {
    With("no", "no"),
    Dev(With("yes", "yes")),
    Dev([With("yes", "yes") EXCEPT !.ext = "invalid"]),
    Dev([With("no", "no") EXCEPT !.twins = "true"]) }

DeliveryInputs == {
    With("normal", "normal"),
    Dev(With("operation", "operation")),
    Dev(With("both", "both")) }

ProblemInputs == {
    BaseInput,
    Dev(With("pain", "pain")),
    Dev(With("water", "water")),
    Dev(With("anemia", "anemia")),
    Dev(With("bleeding", "bleeding")),
    Dev([BaseInput EXCEPT !.text = ""]) }

IssueAnswerInputs(asked) ==
    {BaseInput}
    \cup (IF asked = "pain_1" THEN {Dev(With("naalon", "naalon"))} ELSE {})
    \cup (IF asked = "water_2" THEN {Dev(With("light", "light"))} ELSE {})
    \cup (IF asked = "anemia_3" THEN {Dev(With("neg", "neg"))} ELSE {})
    \cup (IF asked \in {"pain_1", "water_1", "anemia_1"}
          THEN {Dev([BaseInput EXCEPT !.text = ""])} ELSE {})

CatalogInputs(i) ==
    CASE i = 0 -> {BaseInput} \cup FaultyInputs
      [] i = 1 -> PregnancyNumberInputs
      [] i = 3 -> LmpInputs
      [] i = 5 -> MonthInputs
      [] QId(i) = 16 -> TwinsInputs
      [] QId(i) = 18 -> BloodTestInputs
      [] QId(i) = 20 -> SugarBpInputs
      [] QId(i) = 24 -> RecentScanInputs
      [] QId(i) \in {28, 37} -> DeliveryInputs
      [] OTHER -> {BaseInput}

\* the record a turn works on: the stored one, a fresh one, or the reset one
WorkingRecord(rec0, exists) ==
    IF ~exists THEN InitializePatientData("t0")
    ELSE IF rec0.current_phase = "completed" THEN StartNewVisit(rec0)
    ELSE rec0

AskedIssueQuestion(pd) ==
    IF pd.isq_index >= 1 /\ pd.isq_index <= Len(IssueQuestions(pd.detected_issue, pd.ans[1]))
    THEN IssueQuestions(pd.detected_issue, pd.ans[1])[pd.isq_index]
    ELSE ""

PlainInputsAt(pd) ==
    CASE pd.current_phase = "onboarding" -> OnboardingInputs
      [] pd.current_phase \in {"demographics", "questionnaire"}
            /\ pd.current_question_index < NumQuestions ->
            CatalogInputs(pd.current_question_index)
      [] pd.current_phase = "problem_collection" /\ pd.problem_description = "" ->
            ProblemInputs
      [] pd.current_phase = "problem_collection" ->
            IssueAnswerInputs(AskedIssueQuestion(pd))
      [] OTHER -> {BaseInput}

\* a turn may raise where it would otherwise have gone the plain way
InputsAt(pd) ==
    PlainInputsAt(pd)
    \cup {[u EXCEPT !.exc = "pre", !.dev = 1] : u \in {v \in PlainInputsAt(pd) : v.dev = 0}}
    \cup {[u EXCEPT !.exc = "post", !.dev = 1] :
                u \in {v \in PlainInputsAt(pd) : v.dev = 0 /\ Extracts(pd, v)}}

AlertOutcomes == {"yellow", "red", "orange"}

---------------------------------------------------------------------------
(* The specification of the interview engine on one patient record *)

NoReply == MkReply("none", 0, "", "onboarding", "none")

NoReset == [did |-> FALSE, rec |-> InitializePatientData("t0")]

NoEmrData == [alert |-> "none", summary |-> ""]

\* no turn is in flight
NoWork == [busy |-> FALSE]

InitEngine ==
    /\ store = InitializePatientData("t0")
    /\ created = FALSE
    /\ reply = NoReply
    /\ emr = "idle"
    /\ emrData = NoEmrData
    /\ assessCalls = 0
    /\ resetRec = NoReset
    /\ step = "init"
    /\ prev = InitializePatientData("t0")
    /\ devs = 0
    /\ work = NoWork
    /\ input = BaseInput

\* the resolver harness and the webhook service at rest
ResolverIdle ==
    /\ rRec = InitializePatientData("t0")
    /\ rAfter = InitializePatientData("t0")
    /\ rStart = 0
    /\ rIdx = <<>>

\* message ids of the deliveries: "" is a missing id, t1 a text message
MessageIds == {"m1", "m2", "t1"}

IsAudio(m) == m # "t1"

NewDelivery == [pc |-> "new", msg |-> "", at |-> 0, t0 |-> 0, ran |-> 0, replies |-> 0,
                guard |-> ""]

NoResponse == [sent |-> FALSE, msg |-> "", at |-> 0]

HookIdle ==
    /\ hook = [d \in 1..NumDeliveries |-> NewDelivery]
    /\ lockOwner = 0
    /\ processed = [m \in MessageIds |-> -1]
    /\ lastResp = NoResponse
    /\ api = [a \in 1..NumApiCalls |-> "idle"]
    /\ now = 0
    /\ ticks = 0

\* the permits of openai_semaphore and the default of max_retries
OpenAiPermits == 30
MaxRetries == 3

\* the chat calls of the engine: the ones made through _call_openai_async
\* (answer extraction and its kin) and the two made on the client directly
CallKinds == {"extraction", "assessment", "onboarding"}

IsDirect(kind) == kind \in {"assessment", "onboarding"}

NoCall == [pc |-> "idle", kind |-> "extraction", tries |-> 0, errs |-> <<>>, waits |-> <<>>]

OracleIdle ==
    /\ chat = [c \in 1..NumCalls |-> NoCall]
    /\ permits = OpenAiPermits
    /\ others = 0
    /\ strays = 0

Init == InitEngine /\ ResolverIdle /\ HookIdle /\ OracleIdle

\* the bounds on what is explored
TurnAllowed(pd, u, out) ==
    /\ devs + u.dev <= MaxDeviations
    /\ pd.visit_number <= MaxVisits
    /\ pd.visit_number > 1 => Len(pd.conversation_history) < MaxLaterTurns
    /\ (pd.current_phase = "onboarding" /\ out.rec.current_phase = "onboarding")
          => Len(pd.conversation_history) < MaxOnboardingTurns

\* the assessment oracle's answers explored for the input u0
AlertsFor(u0, plain) ==
    IF plain.calls > 0 /\ u0.dev = 0 THEN AlertOutcomes ELSE {"yellow"}

WithAlert(u0, a) == IF a = "yellow" THEN u0 ELSE [u0 EXCEPT !.alert = a, !.dev = 1]

\* the failures of the record store in a turn
StoreFaults == {"load", "load_create", "save"}

\* the record the turn loads under the fault f
LoadedRecord(f) ==
    IF f \in {"load", "load_create"} THEN InitializePatientData("t0")
    ELSE WorkingRecord(store, created)

\* the inputs of a turn struck by the fault f: a failure is a departure
FaultInputs(pd, f) ==
    IF f = "none" THEN InputsAt(pd)
    ELSE {[u EXCEPT !.fault = f, !.dev = 1] : u \in {v \in PlainInputsAt(pd) : v.dev = 0}}

\* one call of process_patient_response, from the load to the save, with
\* the record store failing as one of faults says
TurnUnder(faults) ==
    \E f \in faults :
    \E pd \in {LoadedRecord(f)} :
    \E u0 \in FaultInputs(pd, f) :
    \E plain \in {ProcessPatientResponse(store, created, u0)} :
    \E a \in AlertsFor(u0, plain) :
    \E out \in {IF a = "yellow" THEN plain
                ELSE ProcessPatientResponse(store, created, WithAlert(u0, a))} :
        /\ TurnAllowed(pd, WithAlert(u0, a), out)
        /\ store' = out.rec
        /\ created' = TRUE
        /\ reply' = out.reply
        /\ emr' = IF out.reply.action = "generate_emr" THEN "queued" ELSE emr
        /\ emrData' = IF out.reply.action = "generate_emr" THEN NoEmrData ELSE emrData
        /\ assessCalls' = IF out.reset /\ out.saved THEN out.calls
                          ELSE assessCalls + out.calls
        /\ resetRec' = IF out.reset THEN [did |-> TRUE, rec |-> out.afterReset]
                       ELSE NoReset
        /\ step' = "turn"
        /\ prev' = store
        /\ devs' = devs + WithAlert(u0, a).dev
        /\ input' = WithAlert(u0, a)
        /\ UNCHANGED <<work, resolverVars, hookVars, oracleVars>>

\* a turn with the record store answering
Turn ==
    /\ TurnUnder({"none"})
    /\ input'.fault = "none"

\* a turn of an existing patient in which the record store fails
FaultyTurn == created /\ TurnUnder(StoreFaults)

\* generate_emr up to its EMR request: the load and, when the stored alert
\* level is not one of red, yellow, green, a fresh assessment
EmrLoad ==
    /\ emr = "queued"
    /\ created
    /\ \E a \in AlertOutcomes :
        \E again \in {store.alert_level \notin ValidAlerts} :
            /\ (~again => a = "yellow")
            /\ emrData' = [alert |-> IF again THEN a ELSE store.alert_level,
                           summary |-> IF again THEN "summary" ELSE store.assessment_summary]
            /\ assessCalls' = IF again THEN assessCalls + 1 ELSE assessCalls
    /\ emr' = "loaded"
    /\ step' = "emr_load"
    /\ prev' = store
    /\ UNCHANGED <<store, created, reply, resetRec, devs, work, input, resolverVars, hookVars, oracleVars>>

\* generate_emr after the EMR request: the partial write to the record
EmrWrite ==
    /\ emr = "loaded"
    /\ store' = [store EXCEPT !.alert_level = emrData.alert,
                              !.assessment_summary = emrData.summary,
                              !.assessment_complete = TRUE,
                              !.current_phase = "completed"]
    /\ emr' = "idle"
    /\ emrData' = NoEmrData
    /\ step' = "emr_write"
    /\ prev' = store
    /\ UNCHANGED <<created, reply, assessCalls, resetRec, devs, work, input, resolverVars, hookVars, oracleVars>>

\* generate_emr when the EMR request fails: nothing is written
EmrAbort ==
    /\ emr = "loaded"
    /\ emr' = "idle"
    /\ emrData' = NoEmrData
    /\ step' = "emr_abort"
    /\ prev' = store
    /\ UNCHANGED <<store, created, reply, assessCalls, resetRec, devs, work, input, resolverVars, hookVars, oracleVars>>

Next == Turn \/ EmrLoad \/ EmrWrite \/ EmrAbort

Spec == Init /\ [][Next]_vars

\* the interview engine on a record store that can fail
NextFaulty == Turn \/ FaultyTurn \/ EmrLoad \/ EmrWrite \/ EmrAbort

SpecFaulty == Init /\ [][NextFaulty]_vars

---------------------------------------------------------------------------
(* The resolver on its own: records as the interview can leave them, every *)
(* start index, and successive calls with nothing else touching the record *)

\* pregnancy_number, first_pregnancy and number_of_children as
\* _extract_information_intelligently and _extract_pregnancy_number leave
\* them; the last two are records stored through the patients route, where
\* first_pregnancy is set on a record that counts children
PregnancyFacts == {
    <<"", FALSE, 0>>, <<"ans", FALSE, 0>>,
    <<"1", TRUE, 0>>, <<"1", FALSE, 0>>,
    <<"2", FALSE, 1>>, <<"2", FALSE, 0>>,
    <<"3", FALSE, 2>>, <<"3", FALSE, 0>>,
    <<"2", TRUE, 1>>, <<"3", TRUE, 2>> }

\* last_menstrual_period_remembered and last_menstrual_period
LmpFacts == { <<FALSE, "">>, <<TRUE, "ans">>, <<FALSE, "ans">> }

\* trimester and pregnancy_month
TrimesterFacts == {
    <<"", "">>, <<"first", "2">>, <<"second", "5">>, <<"third", "8">>,
    <<"unknown", "10">>, <<"third", "">>, <<"", "2">>, <<"first", "8">> }

\* the delivery answers a record with these pregnancy facts can hold
DeliveryFacts(p) ==
    IF p[2] \/ (p[3] = 0 /\ PregnancyNumberInt(p[1]) < 2) THEN {""}
    ELSE {"", "normal", "operation", "both"}

ResolverRecord(p, l, t, tw, b, sb, d) ==
    [InitializePatientData("t0") EXCEPT
        !.current_phase = "questionnaire",
        !.ans = [i \in QIdx |->
                    CASE i = 1 -> p[1]
                      [] i = 3 -> l[2]
                      [] i = 5 -> t[2]
                      [] i = 14 -> b
                      [] i = 16 -> sb
                      [] i = 24 -> IF PregnancyNumberInt(p[1]) = 2 THEN d ELSE ""
                      [] i = 33 -> IF PregnancyNumberInt(p[1]) = 3 THEN d ELSE ""
                      [] OTHER -> ""],
        !.first_pregnancy = p[2],
        !.number_of_children = p[3],
        !.lmp_remembered = l[1],
        !.trimester = t[1],
        !.has_twins = tw]

ResolverRecords ==
    UNION { { ResolverRecord(p, l, t, tw, b, sb, d) :
                l \in LmpFacts, t \in TrimesterFacts, tw \in BOOLEAN,
                b \in {"", "ans"}, sb \in {"", "ans", "issue"}, d \in DeliveryFacts(p) } :
            p \in PregnancyFacts }

InitResolver ==
    /\ InitEngine
    /\ HookIdle
    /\ OracleIdle
    /\ rRec \in ResolverRecords
    /\ rAfter = rRec
    /\ rStart \in 0..NumQuestions
    /\ rIdx = <<>>

\* one call _get_next_valid_question_index(rStart, record): the index it
\* returns is noted and the record is left as the call leaves it
ResolveCall ==
    /\ Len(rIdx) < MaxResolverCalls
    /\ rIdx' = Append(rIdx, NextValidIndex(rStart, rAfter))
    /\ rAfter' = AfterResolve(rAfter)
    /\ UNCHANGED <<rRec, rStart, engineVars, hookVars, oracleVars>>

NextResolver == ResolveCall

SpecResolver == InitResolver /\ [][NextResolver]_vars

\* C10: _get_next_valid_question_index is idempotent: successive calls
\* with the same start index on a record nothing else modifies return the
\* same index, for every record and every start index in 0..len(questions).
ResolverIdempotent ==
    \A j, k \in 1..Len(rIdx) : rIdx[j] = rIdx[k] /\ rStart <= rIdx[j] /\ rIdx[j] <= NumQuestions

\* two calls where the first one computed number_of_children and stopped
\* inside the obstetric block of a mother of two
ResolvedTwiceAfterWriteBack ==
    /\ Len(rIdx) = 2
    /\ rRec.number_of_children = 0
    /\ rAfter.number_of_children = 2
    /\ QId(rIdx[1]) >= 35 /\ QId(rIdx[1]) <= 43
    /\ rStart < rIdx[1]

InSingleChildBlock(i) == i < NumQuestions /\ 25 <= QId(i) /\ QId(i) <= 34

InMultipleChildrenBlock(i) == i < NumQuestions /\ 35 <= QId(i) /\ QId(i) <= 43

\* C11: For a record with first_pregnancy = true and any start index the
\* resolver never returns a question of the single-child block (25..34)
\* or of the multi-child block (35..43).
FirstPregnancySkipsObstetricBlocks ==
    rRec.first_pregnancy =>
        \A j \in 1..Len(rIdx) :
            ~InSingleChildBlock(rIdx[j]) /\ ~InMultipleChildrenBlock(rIdx[j])

\* a first pregnancy asked from inside the obstetric blocks lands on the
\* first question after them
FirstPregnancyJumpedOverBlocks ==
    /\ Len(rIdx) >= 1
    /\ rRec.first_pregnancy
    /\ 25 <= QId(rStart) /\ QId(rStart) <= 43
    /\ rIdx[1] < NumQuestions /\ QId(rIdx[1]) = 44

\* the indices the resolver can return for the record rec
Selectable(rec) == {NextValidIndex(st, rec) : st \in 0..NumQuestions}

\* C12: With number_of_children = 1 the resolver selects obstetric
\* questions only from the single-child block, with number_of_children >= 2
\* only from the multi-child block, and for no record does it select
\* questions of both blocks.
OneObstetricBlockPerRecord ==
    /\ \A j \in 1..Len(rIdx) :
        /\ rRec.number_of_children = 1 => ~InMultipleChildrenBlock(rIdx[j])
        /\ rRec.number_of_children >= 2 => ~InSingleChildBlock(rIdx[j])
        /\ InSingleChildBlock(rIdx[j]) => rAfter.number_of_children = 1
        /\ InMultipleChildrenBlock(rIdx[j]) => rAfter.number_of_children >= 2
    /\ (rStart = 0 /\ Len(rIdx) = 1) =>
         \A sel \in {Selectable(rRec)} :
            ~((\E i \in sel : InSingleChildBlock(i)) /\ (\E i \in sel : InMultipleChildrenBlock(i)))

\* a mother of two asked from inside the single-child block lands on the
\* first question of the multi-child block
SingleChildBlockSkipped ==
    /\ Len(rIdx) >= 1
    /\ rRec.number_of_children >= 2 /\ ~rRec.first_pregnancy
    /\ 25 <= QId(rStart) /\ QId(rStart) <= 34
    /\ rIdx[1] < NumQuestions /\ QId(rIdx[1]) = 35

---------------------------------------------------------------------------
(* The WhatsApp webhook service for one patient: deliveries of messages,   *)
(* the per-patient lock, the processed-message table and the clock; and    *)
(* the /conversation route, which calls the engine directly.               *)

MessageTtl == 3600
LockWaitTimeout == 60
ProcessingTimeout == 120
ResponseCooldown == 2
TickSteps == {LockWaitTimeout, MessageTtl + 1}

\* the eviction at the head of _is_message_processed
EvictExpired(tab, t) ==
    [m \in MessageIds |-> IF tab[m] >= 0 /\ t - tab[m] > MessageTtl THEN -1 ELSE tab[m]]

\* _is_message_processed, on the table after the eviction
IsMessageProcessed(tab, m) == m # "" /\ tab[m] >= 0

\* a variant that records nothing
MarkNothing(tab, m, t) == tab

\* _mark_message_processed
MarkMessageProcessed(tab, m, t) ==
    IF m # "" THEN [tab EXCEPT ![m] = t] ELSE tab

\* _should_send_response: no second response for the same message id or
\* within the cooldown
ShouldSendResponse(last, m, t) ==
    ~(last.sent /\ (last.msg = m \/ t - last.at < ResponseCooldown))

\* a variant of the finally block that leaves the lock held
KeptBy(d) == lockOwner

\* the finally block: the lock is released by the delivery that holds it
ReleasedBy(d) == IF lockOwner = d THEN 0 ELSE lockOwner

\* the ids delivery d can carry: one seen before, or the next unseen one
ArrivingIds(d) ==
    {"", "t1", "m1"} \cup {"m2" : e \in {e \in 1..NumDeliveries : hook[e].msg = "m1"}}

\* a message reaches handle_webhook: the first duplicate check; a text
\* message is only marked, a voice message goes on to wait for the lock
Arrive(d) ==
    /\ hook[d].pc = "new"
    /\ d > 1 => hook[d - 1].pc # "new"
    /\ \E m \in ArrivingIds(d) :
       \E tab \in {EvictExpired(processed, now)} :
          IF IsMessageProcessed(tab, m)
          THEN /\ hook' = [hook EXCEPT ![d] = [@ EXCEPT !.pc = "done", !.msg = m, !.at = now]]
               /\ processed' = tab
          ELSE IF ~IsAudio(m)
          THEN /\ hook' = [hook EXCEPT ![d] = [@ EXCEPT !.pc = "done", !.msg = m, !.at = now]]
               /\ processed' = MarkMessageProcessed(tab, m, now)
          ELSE /\ hook' = [hook EXCEPT ![d] = [@ EXCEPT !.pc = "wait", !.msg = m,
                                                         !.at = now, !.t0 = now]]
               /\ processed' = tab
    /\ UNCHANGED <<lockOwner, lastResp, api, now, ticks, engineVars, resolverVars, oracleVars>>

\* after the lock wait, with or without the lock: the second duplicate
\* check and the mark, with no suspension between them
Enter(d, owner) ==
    \E tab \in {EvictExpired(processed, now)} :
        IF IsMessageProcessed(tab, hook[d].msg)
        THEN /\ hook' = [hook EXCEPT ![d].pc = "done"]
             /\ processed' = tab
             /\ lockOwner' = IF owner = d THEN 0 ELSE owner
        ELSE /\ hook' = [hook EXCEPT ![d] = [@ EXCEPT !.pc = "proc", !.t0 = now]]
             /\ processed' = MarkMessageProcessed(tab, hook[d].msg, now)
             /\ lockOwner' = owner

\* patient_lock.acquire() succeeds within the wait
Acquire(d) ==
    /\ hook[d].pc = "wait"
    /\ lockOwner = 0
    /\ Enter(d, d)
    /\ UNCHANGED <<lastResp, api, now, ticks, engineVars, resolverVars, oracleVars>>

\* a variant of the wait that has no timeout
WaitWithoutTimeout(d) == FALSE /\ UNCHANGED vars

\* the wait for the lock times out: the delivery goes on without it
LockTimeout(d) ==
    /\ hook[d].pc = "wait"
    /\ now - hook[d].t0 >= LockWaitTimeout
    /\ Enter(d, lockOwner)
    /\ UNCHANGED <<lastResp, api, now, ticks, engineVars, resolverVars, oracleVars>>

\* handle_voice_message up to the engine call: no media id ("none"), the
\* response guard, then the download and the transcription ("fail" when
\* either yields nothing)
VoiceStart(d) ==
    /\ hook[d].pc = "proc"
    /\ \E media \in {"ok", "none", "fail"} :
        IF media = "none"
        THEN /\ hook' = [hook EXCEPT ![d].pc = "done"]
             /\ lockOwner' = ReleasedBy(d)
             /\ UNCHANGED lastResp
        ELSE IF ~ShouldSendResponse(lastResp, hook[d].msg, now)
        THEN /\ hook' = [hook EXCEPT ![d] = [@ EXCEPT !.pc = "done", !.guard = "refuse"]]
             /\ lockOwner' = ReleasedBy(d)
             /\ UNCHANGED lastResp
        ELSE /\ lastResp' = [sent |-> TRUE, msg |-> hook[d].msg, at |-> now]
             /\ IF media = "fail"
                THEN /\ hook' = [hook EXCEPT ![d] = [@ EXCEPT !.pc = "done", !.guard = "pass"]]
                     /\ lockOwner' = ReleasedBy(d)
                ELSE /\ hook' = [hook EXCEPT ![d] = [@ EXCEPT !.pc = "turn", !.ran = @ + 1,
                                                              !.guard = "pass"]]
                     /\ UNCHANGED lockOwner
    /\ UNCHANGED <<processed, api, now, ticks, engineVars, resolverVars, oracleVars>>

\* the engine call returns or times out and one message goes out (the reply
\* as audio or text, or the apology), unless the sending fails
FinishTurn(d) ==
    /\ hook[d].pc = "turn"
    /\ \E sent \in BOOLEAN :
        hook' = [hook EXCEPT ![d] = [@ EXCEPT !.pc = "done",
                                            !.replies = IF sent THEN @ + 1 ELSE @]]
    /\ lockOwner' = ReleasedBy(d)
    /\ UNCHANGED <<processed, lastResp, api, now, ticks, engineVars, resolverVars, oracleVars>>

\* handle_voice_message exceeds its time: it is cancelled and the apology
\* is sent
ProcessingTimedOut(d) ==
    /\ hook[d].pc \in {"proc", "turn"}
    /\ now - hook[d].t0 >= ProcessingTimeout
    /\ hook' = [hook EXCEPT ![d] = [@ EXCEPT !.pc = "done", !.replies = @ + 1]]
    /\ lockOwner' = ReleasedBy(d)
    /\ UNCHANGED <<processed, lastResp, api, now, ticks, engineVars, resolverVars, oracleVars>>

\* the clock advances, never past the expiry of a running timer
Tick ==
    /\ ticks < MaxTicks
    /\ \E k \in TickSteps :
        /\ \A d \in 1..NumDeliveries :
            /\ hook[d].pc = "wait" => now + k <= hook[d].t0 + LockWaitTimeout
            /\ hook[d].pc \in {"proc", "turn"} => now + k <= hook[d].t0 + ProcessingTimeout
        /\ now' = now + k
    /\ ticks' = ticks + 1
    /\ UNCHANGED <<hook, lockOwner, processed, lastResp, api, engineVars, resolverVars, oracleVars>>

\* the background cleanup loop
CleanupMessages ==
    /\ EvictExpired(processed, now) # processed
    /\ processed' = EvictExpired(processed, now)
    /\ UNCHANGED <<hook, lockOwner, lastResp, api, now, ticks, engineVars, resolverVars, oracleVars>>

\* the /conversation route: the engine is called with no lock and no
\* duplicate check
ApiStart(a) ==
    /\ api[a] = "idle"
    /\ api' = [api EXCEPT ![a] = "turn"]
    /\ UNCHANGED <<hook, lockOwner, processed, lastResp, now, ticks, engineVars, resolverVars, oracleVars>>

ApiFinish(a) ==
    /\ api[a] = "turn"
    /\ api' = [api EXCEPT ![a] = "done"]
    /\ UNCHANGED <<hook, lockOwner, processed, lastResp, now, ticks, engineVars, resolverVars, oracleVars>>

NextWebhook ==
    \/ \E d \in 1..NumDeliveries : Arrive(d)
    \/ \E d \in 1..NumDeliveries : Acquire(d)
    \/ \E d \in 1..NumDeliveries : LockTimeout(d)
    \/ \E d \in 1..NumDeliveries : VoiceStart(d)
    \/ \E d \in 1..NumDeliveries : FinishTurn(d)
    \/ \E d \in 1..NumDeliveries : ProcessingTimedOut(d)
    \/ Tick
    \/ CleanupMessages
    \/ \E a \in 1..NumApiCalls : ApiStart(a)
    \/ \E a \in 1..NumApiCalls : ApiFinish(a)

SpecWebhook == Init /\ [][NextWebhook]_vars

\* the deliveries and route calls whose engine turn is in flight
TurnsInFlight ==
    Cardinality({d \in 1..NumDeliveries : hook[d].pc = "turn"})
        + Cardinality({a \in 1..NumApiCalls : api[a] = "turn"})

\* C4: At most one engine turn is in flight for the patient at any time,
\* whichever entry path delivered the utterances.
OneTurnInFlight == TurnsInFlight <= 1

\* the deliveries of the message of delivery d that arrived within the TTL
\* of it
SameMessageWithinTtl(d) ==
    {e \in 1..NumDeliveries :
        /\ hook[e].pc # "new"
        /\ hook[e].msg = hook[d].msg
        /\ hook[e].at - hook[d].at <= MessageTtl
        /\ hook[d].at - hook[e].at <= MessageTtl}

RECURSIVE SumOver(_, _, _)
SumOver(S, field, acc) ==
    IF S = {} THEN acc
    ELSE The({SumOver(S \ {e}, field, acc + hook[e][field]) : e \in {The(S)}})

\* C5: The deliveries of one non-empty message id that arrive within the
\* TTL of each other run at most one engine turn and send at most one
\* reply between them, under every interleaving, lock timeouts included.
DuplicateHandledOnce ==
    \A d \in 1..NumDeliveries :
        (hook[d].pc # "new" /\ hook[d].msg # "") =>
            /\ SumOver(SameMessageWithinTtl(d), "ran", 0) <= 1
            /\ SumOver(SameMessageWithinTtl(d), "replies", 0) <= 1

\* delivery e of a message arrived before delivery d of the same message
\* was marked, waited for the lock that d holds, went on without it while d
\* was still in its turn, and was turned away as a duplicate
DuplicateTurnedAwayAfterLockTimeout ==
    \E d, e \in 1..NumDeliveries :
        /\ d # e
        /\ hook[d].msg = hook[e].msg /\ hook[d].msg # ""
        /\ hook[d].pc = "turn" /\ lockOwner = d
        /\ hook[e].pc = "done" /\ hook[e].ran = 0 /\ hook[e].replies = 0
        /\ hook[e].at < hook[d].t0
        /\ hook[e].t0 + LockWaitTimeout <= now

---------------------------------------------------------------------------
(* Properties of the interview engine *)

AssessedOncePerVisit == assessCalls <= 1

\* C3: A questionnaire turn that moves current_question_index to the
\* exhausted value len(questions) ends with the assessment done: phase
\* completed, alert_level set and action generate_emr.
ExhaustionAssessesInTurn ==
    (/\ step = "turn"
     /\ prev.current_phase = "questionnaire"
     /\ prev.current_question_index < NumQuestions
     /\ store.current_question_index = NumQuestions)
        => (/\ store.current_phase = "completed"
            /\ store.alert_level # "none"
            /\ reply.action = "generate_emr")

\* the ordinary path: the last answer arrives and the assessment is made
ExhaustedAndAssessed ==
    /\ step = "turn"
    /\ prev.current_phase = "questionnaire"
    /\ prev.current_question_index < NumQuestions
    /\ store.current_question_index = NumQuestions
    /\ store.current_phase = "completed"
    /\ reply.action = "generate_emr"

\* the number of visit_history entries of rec for visit n
VisitEntries(rec, n) ==
    Cardinality({k \in 1..Len(rec.visit_history) : rec.visit_history[k].visit_number = n})

\* C6: Archiving is idempotent: on a completed record of visit N the
\* archive step, run once or repeatedly, directly or through
\* _handle_completed_phase and _start_new_visit, leaves exactly one entry
\* for N; no stored record ever holds two entries of one visit.
ArchiveIdempotent ==
    /\ \A k \in 1..Len(store.visit_history) :
            VisitEntries(store, store.visit_history[k].visit_number) = 1
    /\ (store.current_phase = "completed" /\ store.assessment_complete) =>
         \A once \in {ArchiveCurrentVisit(store)} :
            /\ VisitEntries(once, store.visit_number) = 1
            /\ ArchiveCurrentVisit(once) = once
            /\ VisitEntries(HandleCompletedPhase(once).rec, store.visit_number) = 1
            /\ VisitEntries(StartNewVisit(HandleCompletedPhase(store).rec),
                            store.visit_number) = 1
            /\ (step = "turn" /\ resetRec.did) =>
                    VisitEntries(resetRec.rec, prev.visit_number) = 1

\* a second visit has been archived next to the first
SecondVisitArchived ==
    /\ step = "turn"
    /\ resetRec.did
    /\ Len(prev.visit_history) = 1
    /\ ~HasVisit(prev, prev.visit_number)
    /\ Len(resetRec.rec.visit_history) = 2

\* C7: _start_new_visit leaves name, age, phone number, created_at and
\* every existing visit_history entry as they were and adds exactly 1 to
\* visit_number.
NewVisitPreservesIdentity ==
    (step = "turn" /\ resetRec.did) =>
        /\ resetRec.rec.name = prev.name
        /\ resetRec.rec.age = prev.age
        /\ resetRec.rec.phone = prev.phone
        /\ resetRec.rec.created_at = prev.created_at
        /\ resetRec.rec.visit_number = prev.visit_number + 1
        /\ Len(resetRec.rec.visit_history) >= Len(prev.visit_history)
        /\ \A k \in 1..Len(prev.visit_history) :
                resetRec.rec.visit_history[k] = prev.visit_history[k]

\* a third visit was started for a named patient with an archived visit
ThirdVisitStarted ==
    /\ step = "turn"
    /\ resetRec.did
    /\ prev.name # "" /\ prev.age # "" /\ prev.phone # ""
    /\ Len(prev.visit_history) = 1
    /\ resetRec.rec.visit_number = 3

\* the interview-scoped fields of rec have their initial values
InterviewFieldsEmpty(rec) ==
    \A z \in {InitializePatientData("t0")} :
        /\ rec.ans = z.ans
        /\ rec.problem_description = z.problem_description
        /\ rec.detected_issue = z.detected_issue
        /\ rec.isq = z.isq
        /\ rec.isq_index = z.isq_index
        /\ rec.isq_complete = z.isq_complete
        /\ rec.issue_specific = z.issue_specific
        /\ rec.assessment_complete = z.assessment_complete
        /\ rec.assessment_summary = z.assessment_summary
        /\ rec.alert_level = z.alert_level
        /\ rec.followup_needed = z.followup_needed
        /\ rec.followup_asked = z.followup_asked
        /\ rec.followup_answer = z.followup_answer
        /\ rec.current_phase = "onboarding"
        /\ rec.current_question_index = 0

\* C8: After _start_new_visit every interview-scoped field of the record
\* has its empty initial value, the phase is onboarding and the cursor 0.
NewVisitStartsEmpty ==
    (step = "turn" /\ resetRec.did) => InterviewFieldsEmpty(resetRec.rec)

\* the snapshot snap holds the interview fields of the record rec
SnapshotHolds(snap, rec) ==
    /\ snap.visit_number = rec.visit_number
    /\ snap.ans = rec.ans
    /\ snap.problem_description = rec.problem_description
    /\ snap.alert_level = rec.alert_level
    /\ snap.assessment_summary = rec.assessment_summary
    /\ "detected_issue" \in DOMAIN snap /\ snap.detected_issue = rec.detected_issue
    /\ "isq" \in DOMAIN snap /\ snap.isq = rec.isq

\* no entry of visit_history changed in the last operation
HistoryKept ==
    \A k \in 1..Len(prev.visit_history) :
        /\ k <= Len(store.visit_history)
        /\ store.visit_history[k] = prev.visit_history[k]

\* C9: The snapshot appended for visit N holds every interview field
\* recorded in visit N (catalog answers, complaint, detected issue and
\* sub-questionnaire answers, alert level, assessment text), and no later
\* operation changes an entry of visit_history.
SnapshotComplete ==
    /\ HistoryKept
    /\ (/\ step = "turn"
        /\ resetRec.did
        /\ Len(resetRec.rec.visit_history) > Len(prev.visit_history))
          => SnapshotHolds(resetRec.rec.visit_history[Len(resetRec.rec.visit_history)],
                           prev)

\* the last turn asked the catalog question with the id qid
Asked(qid) == reply.kind = "question" /\ reply.qid = qid

\* the last turn was a demographics turn that stored the answer pn to Q5
AnsweredPregnancyNumber(pn) ==
    /\ step = "turn"
    /\ prev.current_phase = "demographics"
    /\ prev.current_question_index = 1
    /\ prev.ans[1] = ""
    /\ store.ans[1] = pn

\* C13: A demographics turn that stores the answer 2 to the
\* pregnancy-number question (id 5) leaves first_pregnancy false and asks
\* question id 6; once the answer 1 is stored, question id 6 is asked
\* neither in that turn nor in a later turn of the visit, through which the
\* answer stays as it is.
PregnancyNumberGatesMiscarriageQuestion ==
    /\ AnsweredPregnancyNumber("2") =>
         /\ ~store.first_pregnancy
         /\ Asked(6)
         /\ store.current_question_index = 2
    /\ store.ans[1] = "1" => ~Asked(6)
    /\ (step = "turn" /\ ~resetRec.did /\ prev.ans[1] = "1") => store.ans[1] = "1"

\* the answer 1 was stored and a later turn of the visit is asking a
\* question of the questionnaire
FirstPregnancyPastDemographics ==
    /\ step = "turn"
    /\ prev.ans[1] = "1" /\ store.ans[1] = "1"
    /\ store.first_pregnancy
    /\ store.current_phase = "questionnaire"
    /\ reply.kind = "question"

\* the last turn took the complaint and classified it into an issue with
\* follow-up questions
ComplaintClassified ==
    /\ step = "turn"
    /\ prev.current_phase = "problem_collection"
    /\ prev.problem_description = ""
    /\ store.detected_issue \notin {"", "checkup"}

\* the last turn was handled inside the issue sub-questionnaire and saved
InIssueQuestions ==
    /\ step = "turn"
    /\ ~resetRec.did
    /\ prev.current_phase = "problem_collection"
    /\ prev.detected_issue \notin {"", "checkup"}
    /\ ~prev.isq_complete
    /\ store # prev

\* the turn asked the follow-up at a later position k of the list qs, the
\* positions it passed over all conditional, and stayed in the phase
AskedLaterFollowup(qs) ==
    \E k \in (prev.isq_index + 1)..Len(qs) :
        /\ reply.iq = qs[k]
        /\ store.isq_index = k
        /\ store.current_phase = "problem_collection"
        /\ \A j \in (prev.isq_index + 1)..(k - 1) : IsConditional(qs[j])

\* the turn closed the list qs and resumed the catalog after demographics
ResumedCatalog(qs) ==
    /\ \A j \in (prev.isq_index + 1)..Len(qs) : IsConditional(qs[j])
    /\ store.isq_complete
    /\ store.current_phase = "questionnaire"
    /\ store.current_question_index >= DemographicsEnd
    /\ store.current_question_index = NextValidIndex(DemographicsEnd, store)
    /\ Asked(QId(store.current_question_index))

Working == IF resetRec.did THEN resetRec.rec ELSE prev

\* the record whose fields the last turn's handler decided on: the saved
\* one, or the working one when the turn ended without a save
Handled == IF store # prev THEN store ELSE Working

OnboardingComplete(rec) == rec.name # "" /\ rec.age # "" /\ rec.phone # ""

SameVisit == step # "init" /\ ~(step = "turn" /\ resetRec.did)

\* C16: Within a visit alert_level is unset until the assessment, is then
\* given one of red, yellow, green, and from then on keeps that value
\* until the next visit reset.
AlertLevelSetOnce ==
    /\ store.alert_level \in ValidAlerts \cup {"none"}
    /\ store.alert_level # "none" => store.assessment_complete
    /\ (SameVisit /\ prev.alert_level # "none") => store.alert_level = prev.alert_level

\* every entry of the transcript before the last operation is still there,
\* at its position
TranscriptKept ==
    \A k \in 1..Len(prev.conversation_history) :
        /\ k <= Len(store.conversation_history)
        /\ store.conversation_history[k] = prev.conversation_history[k]

\* C17: conversation_history is append-only: a turn appends exactly one
\* entry, and every entry once appended stays at its position with its
\* content through every later operation.
TranscriptAppendOnly ==
    /\ step # "init" => TranscriptKept
    /\ step = "turn" =>
         Len(store.conversation_history) = Len(prev.conversation_history) + 1
    /\ step \in {"emr_load", "emr_write", "emr_abort"} =>
         store.conversation_history = prev.conversation_history

\* the last turn ran the extraction on the question under the cursor and
\* the extraction oracle answered is_valid_answer = false
InvalidAnswerGiven ==
    /\ step = "turn"
    /\ prev.current_phase \in {"demographics", "questionnaire"}
    /\ prev.current_question_index < NumQuestions
    /\ input.text # ""
    /\ ~input.apology
    /\ input.ext = "invalid"

\* C18: When the extraction oracle answers is_valid_answer = false, the
\* target field of the question under the cursor has after the turn the
\* value it had before it.
InvalidAnswerKeepsField ==
    InvalidAnswerGiven =>
        store.ans[prev.current_question_index] = prev.ans[prev.current_question_index]

\* an answer judged invalid left the field of the first question empty
\* and the interview went on to the next question
InvalidAnswerSkipped ==
    /\ InvalidAnswerGiven
    /\ prev.current_question_index = 0
    /\ store.ans[0] = ""
    /\ Asked(5)

\* the outcomes process_patient_response gives for a turn that went well
NormalReply(r) ==
    r.action \in {"continue_conversation", "generate_emr", "end_conversation"}

\* the record store failed in the last turn
StoreFailed == step = "turn" /\ input.fault \in StoreFaults

\* C19: When the record store fails during a turn, on the load or on the
\* save, process_patient_response reports an error outcome and not a
\* normal reply.
StoreFailureReported == StoreFailed => ~NormalReply(reply)

\* C20: A failure of the record store loses no collected data: the stored
\* record of an existing patient is as it was before the failed turn, never
\* a fresh empty record, so that a retry resumes from there.
StoreFailureKeepsRecord == StoreFailed => store = prev

\* C21: Whenever current_phase is completed, alert_level is one of red,
\* yellow, green; an assessment whose output cannot be used still completes
\* the visit, with alert_level yellow.
CompletedHasValidAlert ==
    store.current_phase = "completed" => store.alert_level \in ValidAlerts

\* the turn that ran the assessment completed the visit with the fallback
\* level
CompletedWithYellow ==
    /\ step = "turn"
    /\ prev.current_phase = "questionnaire"
    /\ store.current_phase = "completed"
    /\ store.alert_level = "yellow"
    /\ reply.action = "generate_emr"

\* delivery d leaves handle_webhook in this step
Exits(d) == hook[d].pc # "done" /\ hook'[d].pc = "done"

\* C22: On every exit path of a voice delivery (completion, the duplicate
\* found after the lock, the processing timeout, a failure) the lock the
\* delivery holds is released, and a delivery that went on without the lock
\* never releases the lock another delivery holds; the lock changes hands
\* only by its holder's exit.
LockReleasedByHolderOnly ==
    [][/\ \A d \in 1..NumDeliveries :
            Exits(d) => /\ lockOwner' # d
                        /\ lockOwner # d => lockOwner' = lockOwner
       /\ (lockOwner # 0 /\ lockOwner' # lockOwner) => Exits(lockOwner)]_vars

\* delivery e waited out the lock that d holds, ran its turn without the
\* lock and left while d still holds it
UnlockedDeliveryLeftHolderLocked ==
    \E d, e \in 1..NumDeliveries :
        /\ d # e
        /\ lockOwner = d /\ hook[d].pc = "turn"
        /\ hook[e].pc = "done" /\ hook[e].ran = 1
        /\ hook[e].t0 >= hook[d].t0 + LockWaitTimeout

---------------------------------------------------------------------------
(* The calls to the OpenAI chat service.  _call_openai_async takes a      *)
(* permit of openai_semaphore, runs the request in an executor thread     *)
(* under a timeout and retries it; _generate_assessment and the           *)
(* onboarding extraction call the client themselves, on the event loop.   *)

\* the words of the non-retry list that an error message can hold
NonRetryKeywords == {"authentication", "invalid", "unauthorized", "forbidden", "not found"}

\* error messages, each as the set of listed keywords it contains
ErrorMessages == {{}, {"invalid"}, {"authentication"}}

\* the message made for a timeout: it holds none of the keywords
TimedOut == {"timed out"}

\* any(keyword in error_msg.lower() for keyword in [...])
NonRetryable(msg) == msg \cap NonRetryKeywords # {}

\* a variant of the backoff that waits one second every time
BackoffWaitConstant(attempt) == 1

\* wait_time = 2 ** attempt
BackoffWait(attempt) == 2 ^ attempt

\* a synchronous request on the event loop keeps every coroutine from
\* running until it returns
LoopFree == \A c \in 1..NumCalls : chat[c].pc # "direct"

\* the call holds a permit: it is inside "async with self.openai_semaphore"
HoldsPermit(c) == chat[c].pc \in {"attempt", "sleep"}

\* the engine starts a chat call
StartCall(c) ==
    /\ LoopFree
    /\ chat[c].pc = "idle"
    /\ c > 1 => chat[c - 1].pc # "idle"
    /\ \E kind \in CallKinds :
        chat' = [chat EXCEPT ![c] = [@ EXCEPT !.kind = kind,
                     !.pc = IF IsDirect(kind) THEN "direct" ELSE "acquire"]]
    /\ UNCHANGED <<permits, others, strays, engineVars, resolverVars, hookVars>>

\* async with self.openai_semaphore: the first attempt starts
AcquirePermit(c) ==
    /\ LoopFree
    /\ chat[c].pc = "acquire"
    /\ permits > 0
    /\ permits' = permits - 1
    /\ chat' = [chat EXCEPT ![c] = [@ EXCEPT !.pc = "attempt", !.tries = 1]]
    /\ UNCHANGED <<others, strays, engineVars, resolverVars, hookVars>>

\* the request returns within the timeout
Respond(c) ==
    /\ LoopFree
    /\ chat[c].pc = "attempt"
    /\ chat' = [chat EXCEPT ![c].pc = "returned"]
    /\ permits' = permits + 1
    /\ UNCHANGED <<others, strays, engineVars, resolverVars, hookVars>>

\* what follows a failed attempt that may be retried
AfterFailure(c, msg) ==
    IF chat[c].tries < MaxRetries
    THEN /\ chat' = [chat EXCEPT ![c] = [@ EXCEPT !.pc = "sleep",
                          !.errs = Append(@, msg),
                          !.waits = Append(@, BackoffWait(chat[c].tries - 1))]]
         /\ UNCHANGED permits
    ELSE /\ chat' = [chat EXCEPT ![c] = [@ EXCEPT !.pc = "raised",
                          !.errs = Append(@, msg)]]
         /\ permits' = permits + 1

\* except asyncio.TimeoutError: the wait is over, the executor thread goes
\* on with its request
AttemptTimeout(c) ==
    /\ LoopFree
    /\ chat[c].pc = "attempt"
    /\ AfterFailure(c, TimedOut)
    /\ strays' = strays + 1
    /\ UNCHANGED <<others, engineVars, resolverVars, hookVars>>

\* except Exception
AttemptError(c) ==
    /\ LoopFree
    /\ chat[c].pc = "attempt"
    /\ \E msg \in ErrorMessages :
        IF NonRetryable(msg)
        THEN /\ chat' = [chat EXCEPT ![c] = [@ EXCEPT !.pc = "raised",
                              !.errs = Append(@, msg)]]
             /\ permits' = permits + 1
        ELSE AfterFailure(c, msg)
    /\ UNCHANGED <<others, strays, engineVars, resolverVars, hookVars>>

\* asyncio.sleep(wait_time) is over: the next attempt
Wake(c) ==
    /\ LoopFree
    /\ chat[c].pc = "sleep"
    /\ chat' = [chat EXCEPT ![c] = [@ EXCEPT !.pc = "attempt", !.tries = @ + 1]]
    /\ UNCHANGED <<permits, others, strays, engineVars, resolverVars, hookVars>>

\* the turn is cancelled by the processing timeout of the webhook while
\* the call waits for a permit, for the request or in the backoff
CancelCall(c) ==
    /\ LoopFree
    /\ chat[c].pc \in {"acquire", "attempt", "sleep"}
    /\ chat' = [chat EXCEPT ![c].pc = "cancelled"]
    /\ permits' = IF HoldsPermit(c) THEN permits + 1 ELSE permits
    /\ strays' = IF chat[c].pc = "attempt" THEN strays + 1 ELSE strays
    /\ UNCHANGED <<others, engineVars, resolverVars, hookVars>>

\* openai.chat.completions.create called on the event loop returns or raises
DirectReturn(c) ==
    /\ chat[c].pc = "direct"
    /\ \E ok \in BOOLEAN :
        chat' = [chat EXCEPT ![c].pc = IF ok THEN "returned" ELSE "raised"]
    /\ UNCHANGED <<permits, others, strays, engineVars, resolverVars, hookVars>>

\* the request of an executor thread whose wait was given up ends
StrayEnds ==
    /\ strays > 0
    /\ strays' = strays - 1
    /\ UNCHANGED <<chat, permits, others, engineVars, resolverVars, hookVars>>

\* a call of another conversation takes a permit and starts its request
OtherAcquire ==
    /\ LoopFree
    /\ permits > 0
    /\ permits' = permits - 1
    /\ others' = others + 1
    /\ UNCHANGED <<chat, strays, engineVars, resolverVars, hookVars>>

\* a call of another conversation returns
OtherRelease ==
    /\ LoopFree
    /\ others > 0
    /\ others' = others - 1
    /\ permits' = permits + 1
    /\ UNCHANGED <<chat, strays, engineVars, resolverVars, hookVars>>

NextOracle ==
    \/ \E c \in 1..NumCalls : StartCall(c)
    \/ \E c \in 1..NumCalls : AcquirePermit(c)
    \/ \E c \in 1..NumCalls : Respond(c)
    \/ \E c \in 1..NumCalls : AttemptTimeout(c)
    \/ \E c \in 1..NumCalls : AttemptError(c)
    \/ \E c \in 1..NumCalls : Wake(c)
    \/ \E c \in 1..NumCalls : CancelCall(c)
    \/ \E c \in 1..NumCalls : DirectReturn(c)
    \/ StrayEnds
    \/ OtherAcquire
    \/ OtherRelease

SpecOracle == Init /\ [][NextOracle]_vars

\* the requests the chat service is serving
InFlight ==
    Cardinality({c \in 1..NumCalls : chat[c].pc \in {"attempt", "direct"}})
        + others + strays

\* C23: The chat requests in flight, extraction and assessment together,
\* never exceed the permits of the pool, every request in flight holds a
\* permit, and every permit taken is given back when its call is over.
OracleCallsHoldPermits ==
    /\ InFlight <= OpenAiPermits
    /\ \A c \in 1..NumCalls : chat[c].pc \in {"attempt", "direct"} => HoldsPermit(c)
    /\ strays = 0
    /\ permits + others + Cardinality({c \in 1..NumCalls : HoldsPermit(c)}) = OpenAiPermits

\* a call through _call_openai_async failed on every attempt and gave its
\* permit back
PermitReturnedAfterLastAttempt ==
    \E c \in 1..NumCalls :
        /\ chat[c].pc = "raised" /\ chat[c].tries = MaxRetries
        /\ ~IsDirect(chat[c].kind)
        /\ permits + others = OpenAiPermits

\* the failed attempts of a call that were followed by a backoff
Retried(r) ==
    {k \in 1..Len(r.errs) : k < MaxRetries /\ ~NonRetryable(r.errs[k])}

\* C24: _call_openai_async makes at most max_retries attempts; a timeout or
\* a retryable error on attempt k < max_retries is followed by a wait of
\* 2^(k-1) seconds and one more attempt; the failure of the last attempt is
\* raised; a non-retryable error is raised after the attempt in which it
\* occurred, with no further attempt.
RetriesWithBackoff ==
    \A c \in 1..NumCalls : \A r \in {chat[c]} :
        (r.pc # "idle" /\ ~IsDirect(r.kind)) =>
            /\ r.tries <= MaxRetries
            /\ Len(r.errs) <= r.tries
            /\ \A k \in 1..Len(r.errs) : k < r.tries => ~NonRetryable(r.errs[k])
            /\ Len(r.waits) = Cardinality(Retried(r))
            /\ \A k \in 1..Len(r.waits) : r.waits[k] = 2 ^ (k - 1)
            /\ r.pc = "attempt" => Len(r.errs) = r.tries - 1 /\ Len(r.waits) = r.tries - 1
            /\ r.pc = "sleep" => Len(r.errs) = r.tries /\ Len(r.waits) = r.tries
            /\ r.pc = "returned" => Len(r.errs) = r.tries - 1
            /\ r.pc = "raised" <=>
                  /\ r.tries >= 1 /\ Len(r.errs) = r.tries
                  /\ NonRetryable(r.errs[r.tries]) \/ r.tries = MaxRetries

\* one call timed out, waited one second, failed, waited two seconds and
\* raised the failure of its third attempt; another call raised a
\* non-retryable error after its first attempt
RaisedAfterThirdAndAfterFirst ==
    \E c, e \in 1..NumCalls :
        /\ chat[c].pc = "raised" /\ chat[c].tries = MaxRetries
        /\ chat[c].waits = <<1, 2>> /\ chat[c].errs[1] = TimedOut
        /\ chat[e].pc = "raised" /\ chat[e].tries = 1
        /\ chat[e].kind = "extraction" /\ NonRetryable(chat[e].errs[1])

\* C25: At the end of every turn current_question_index is the index of a
\* catalog question the resolver finds eligible for the field values the
\* record then holds, or it equals the length of the catalog.
CursorOnEligibleQuestion ==
    step = "turn" =>
        \/ store.current_question_index = NumQuestions
        \/ /\ store.current_question_index \in 0..(NumQuestions - 1)
           /\ Eligible(store.current_question_index, store)

\* a saved turn moved the cursor over at least one question the resolver
\* found ineligible and stopped it on a catalog question
CursorSkippedIneligible ==
    /\ step = "turn"
    /\ store # prev
    /\ store.visit_number = prev.visit_number
    /\ store.current_question_index < NumQuestions
    /\ store.current_question_index > prev.current_question_index + 1
    /\ \E i \in (prev.current_question_index + 1)..(store.current_question_index - 1) :
          ~Eligible(i, store)

\* the reply before the last turn asked catalog question i: the cursor
\* stood on it and the reply was not the follow-up of the recent scan
AskedBefore(i) ==
    /\ prev.current_phase \in {"demographics", "questionnaire"}
    /\ prev.current_question_index = i
    /\ ~(prev.followup_needed /\ prev.followup_asked)

\* a turn of the visit that the record had before this turn
LaterTurnOfVisit == step = "turn" /\ created /\ ~resetRec.did /\ store # prev

\* C26: Once a leaf field is populated in a visit, no later turn of the
\* visit writes another value to it, unless the reply before that turn asked
\* the question of the field again.
PopulatedLeafKept ==
    LaterTurnOfVisit =>
        /\ \A i \in QIdx :
              (prev.ans[i] # "" /\ ~AskedBefore(i)) => store.ans[i] = prev.ans[i]
        /\ prev.has_twins => store.has_twins

\* the answer to the follow-up of the recent scan replaced the stored
\* answer to question 24
FollowupAnswerReplacedScanAnswer ==
    /\ LaterTurnOfVisit
    /\ prev.followup_needed /\ prev.followup_asked
    /\ prev.ans[20] # ""
    /\ store.ans[20] # prev.ans[20]

\* the last turn ran the extraction on the question under the cursor and
\* the extraction call failed or gave no parseable answer
ExtractionFailed ==
    /\ step = "turn"
    /\ prev.current_phase \in {"demographics", "questionnaire"}
    /\ prev.current_question_index < NumQuestions
    /\ input.text # ""
    /\ ~input.apology
    /\ input.ext = "raw"

\* C27: When the extraction call of a turn fails (timeout, exception,
\* unparseable output) the answer counts as not extracted: the target field
\* of the question under the cursor is not written.
FailedExtractionKeepsField ==
    ExtractionFailed =>
        store.ans[prev.current_question_index] = prev.ans[prev.current_question_index]

\* the extraction failed on the answer to the first question, the raw text
\* went into its field and the interview moved on
FailedExtractionStoredRawText ==
    /\ ExtractionFailed
    /\ prev.current_question_index = 0
    /\ store.ans[0] = input.text
    /\ Asked(5)

---------------------------------------------------------------------------
(* The wait for the patient lock, with a clock that runs: the timers of    *)
(* asyncio.wait_for fire when their time has come, whatever the deliveries *)
(* in their turn do.                                                       *)

\* the times at which the running timers expire
Expiries ==
    {hook[d].t0 + LockWaitTimeout : d \in {e \in 1..NumDeliveries : hook[e].pc = "wait"}}
        \cup {hook[d].t0 + ProcessingTimeout :
                d \in {e \in 1..NumDeliveries : hook[e].pc \in {"proc", "turn"}}}

\* time passes until the next timer expires
ClockRuns ==
    /\ \E t \in Expiries :
        /\ t > now
        /\ \A t2 \in Expiries : t2 >= t
        /\ now' = t
    /\ UNCHANGED <<hook, lockOwner, processed, lastResp, api, ticks,
                   engineVars, resolverVars, oracleVars>>

\* a voice message with an id reaches handle_webhook
VoiceArrive(d) ==
    /\ Arrive(d)
    /\ hook'[d].msg \in {"m1", "m2"}

NextLockWait ==
    \/ \E d \in 1..NumDeliveries : VoiceArrive(d)
    \/ \E d \in 1..NumDeliveries : Acquire(d)
    \/ \E d \in 1..NumDeliveries : LockTimeout(d)
    \/ \E d \in 1..NumDeliveries : VoiceStart(d)
    \/ \E d \in 1..NumDeliveries : FinishTurn(d)
    \/ \E d \in 1..NumDeliveries : ProcessingTimedOut(d)
    \/ ClockRuns

\* the event loop runs the timers: the clock and the two timeouts are
\* fair; nothing obliges a turn to end or a free lock to be taken
SpecLockWait ==
    /\ Init
    /\ [][NextLockWait]_vars
    /\ WF_vars(ClockRuns)
    /\ \A d \in 1..NumDeliveries :
        WF_vars(LockTimeout(d)) /\ WF_vars(ProcessingTimedOut(d))

\* C28: A delivery that does not get the patient lock within the bounded
\* wait goes on without the lock, which stays with its holder; no delivery
\* waits for the lock forever, even if the holder never releases it.
LockWaitEnds ==
    /\ \A d \in 1..NumDeliveries : (hook[d].pc = "wait") ~> (hook[d].pc # "wait")
    /\ [][\A d \in 1..NumDeliveries :
            (hook[d].pc = "wait" /\ hook'[d].pc # "wait" /\ lockOwner # 0) =>
                /\ now - hook[d].t0 >= LockWaitTimeout
                /\ lockOwner' = lockOwner
                /\ hook'[d].pc \in {"proc", "done"}]_vars

\* delivery e waited out the lock and is in its processing while delivery
\* d, still in its turn, holds the lock
ProceededWithoutLock ==
    \E d, e \in 1..NumDeliveries :
        /\ d # e
        /\ lockOwner = d /\ hook[d].pc = "turn"
        /\ hook[e].pc = "proc"
        /\ hook[e].t0 >= hook[e].at + LockWaitTimeout

\* C29: The report generation started by the terminal action never changes
\* current_phase, assessment_complete or alert_level of the stored record,
\* whatever turn of the patient runs before it finishes.
EmrKeepsInterviewState ==
    step = "emr_write" =>
        /\ store.current_phase = prev.current_phase
        /\ store.assessment_complete = prev.assessment_complete
        /\ store.alert_level = prev.alert_level

\* a turn opened the next visit while generate_emr was at work, and the
\* write of generate_emr then marked the new visit completed and assessed
\* with the alert level of the old one
EmrCompletedTheNextVisit ==
    /\ step = "emr_write"
    /\ prev.current_phase \in {"onboarding", "demographics"}
    /\ prev.alert_level = "none" /\ ~prev.assessment_complete
    /\ store.current_phase = "completed"
    /\ store.assessment_complete
    /\ store.alert_level \in ValidAlerts
    /\ store.visit_number > 1

\* C30: _get_next_valid_question_index is pure: for every record and every
\* start index, no field of the record differs after the call from what it
\* was before it.
ResolverLeavesRecord == rAfter = rRec

\* a call on a record of a second pregnancy with number_of_children 0
\* returned its index and left number_of_children at 1
ResolverWroteNumberOfChildren ==
    /\ Len(rIdx) >= 1
    /\ rRec.number_of_children = 0
    /\ PregnancyNumberInt(rRec.ans[1]) = 2
    /\ rAfter.number_of_children = 1
    /\ rAfter = [rRec EXCEPT !.number_of_children = 1]

\* C31: For every record the trimester the resolver gates on is the one
\* computed from pregnancy_month on that call (months 1-3 first, 4-6
\* second, 7-9 third), whatever value current_pregnancy.trimester holds.
GatingTrimesterFromMonth ==
    (Len(rIdx) >= 1 /\ MonthInt(rRec.ans[5]) \in 1..9) =>
        GetPregnancyTrimester(rRec) = TrimesterOfMonth(MonthInt(rRec.ans[5]))

\* on a record with pregnancy_month 2 and the trimester field still empty
\* the resolver, started at question 15, selected question 15, one of the
\* questions a first trimester skips
SecondTrimesterQuestionInSecondMonth ==
    /\ Len(rIdx) >= 1
    /\ rRec.ans[5] = "2" /\ rRec.trimester = ""
    /\ rStart = 11
    /\ rIdx[1] = 11

\* C32: Within a visit current_question_index never decreases from one turn
\* to the next, the catalog questions are prompted in strictly increasing
\* catalog order, and no catalog question is prompted twice.
CatalogPromptedInOrder ==
    (step = "turn" /\ ~resetRec.did) =>
        /\ store.current_question_index >= prev.current_question_index
        /\ (reply.kind = "question" /\ prev.current_phase \in {"demographics", "questionnaire"})
              => reply.qid > QId(prev.current_question_index)
        /\ (reply.kind = "question" /\ prev.current_phase = "problem_collection")
              => reply.qid > QId(DemographicsEnd - 1)

\* an empty utterance in phase demographics was answered with the question
\* the reply before it had asked
QuestionPromptedAgain ==
    /\ step = "turn"
    /\ ~resetRec.did
    /\ input.text = "" /\ input.exc = "none"
    /\ prev.current_phase = "demographics"
    /\ reply.kind = "question"
    /\ reply.qid = QId(prev.current_question_index)

\* the last turn received the answer to question 24 (recent scan)
AnsweredRecentScan ==
    /\ step = "turn"
    /\ ~resetRec.did
    /\ prev.current_phase = "questionnaire"
    /\ prev.current_question_index = 20
    /\ ~prev.followup_needed

\* the last turn received the answer to the follow-up prompt
AnsweredFollowup ==
    /\ step = "turn"
    /\ ~resetRec.did
    /\ prev.followup_needed /\ prev.followup_asked

CooperativeTurn ==
    /\ Turn
    /\ input'.text # ""
    /\ input'.exc = "none"

NextCooperative == CooperativeTurn \/ EmrLoad \/ EmrWrite \/ EmrAbort

\* the patient's next utterance always arrives (weak fairness of the turn)
SpecCooperative == Init /\ [][NextCooperative]_vars /\ WF_vars(CooperativeTurn)

\* the last step was a turn inside a visit, not the reset of a finished one
TurnInsideVisit == step = "turn" /\ ~resetRec.did

\* the progress measure of the interview: the catalog cursor grows in
\* demographics and questionnaire but for the follow-up prompt, the issue
\* cursor grows in problem_collection unless the phase is left
ProgressMeasureGrows ==
    TurnInsideVisit =>
        /\ prev.current_phase \in {"demographics", "questionnaire"} =>
               \/ store.current_question_index > prev.current_question_index
               \/ reply.kind = "followup"
        /\ prev.current_phase = "problem_collection" =>
               \/ store.isq_index > prev.isq_index
               \/ store.current_phase # "problem_collection"

InInterview ==
    /\ created
    /\ store.visit_number = 1
    /\ store.current_phase \in {"demographics", "problem_collection", "questionnaire"}

\* C34: after onboarding, a patient who keeps sending non-empty utterances
\* with no error reaches current_phase = completed: every turn in
\* demographics or questionnaire raises current_question_index except the
\* follow-up turn, every turn in problem_collection raises
\* issue_specific_question_index or leaves the phase, and so the first visit
\* always arrives at completed.
CooperativeVisitCompletes ==
    /\ []ProgressMeasureGrows
    /\ (InInterview ~> store.current_phase = "completed")

\* a first visit was completed by a turn of the questionnaire after its
\* issue questions had been answered
FirstVisitCompletedAfterIssueQuestions ==
    /\ TurnInsideVisit
    /\ store.visit_number = 1
    /\ store.current_phase = "completed"
    /\ prev.current_phase = "questionnaire"
    /\ store.isq_index > 0

\* ---------------------------------------------------------------------
\* The field an utterance is written to

\* a turn with a non-empty utterance in which nothing raised
AnsweredTurn ==
    /\ LaterTurnOfVisit
    /\ input.text # ""
    /\ input.exc = "none"

\* C35: In demographics and questionnaire the utterance of a turn is written
\* only to the target field of the prompt of the previous reply: the answer
\* to a catalog question goes to the field of that question, the answer to
\* the recent-scan follow-up prompt goes to recent_scan_followup_answer and
\* leaves the field of question 24 unchanged.
UtteranceWrittenToPromptedField ==
    (AnsweredTurn /\ prev.current_phase \in {"demographics", "questionnaire"}) =>
        IF AnsweredFollowup
        THEN /\ store.followup_answer = input.text
             /\ store.ans[20] = prev.ans[20]
        ELSE \A i \in QIdx :
                 i # prev.current_question_index => store.ans[i] = prev.ans[i]

\* the answer to the follow-up prompt was extracted as an answer to question
\* 24 and recent_scan_followup_answer stayed empty
FollowupAnswerWrittenToRecentScan ==
    /\ AnsweredTurn
    /\ AnsweredFollowup
    /\ store.followup_answer = ""
    /\ store.ans[20] = input.text
    /\ store.ans[20] # prev.ans[20]

\* ---------------------------------------------------------------------
\* The fields written by a turn of the issue sub-questionnaire

\* the follow-up question that the reply before the last turn asked
AnsweredIssueQuestion == AskedIssueQuestion(prev)

\* C36: In the issue sub-questionnaire the field of a conditional follow-up
\* that was skipped is never written: each utterance is saved only under the
\* id and field of the follow-up that the previous reply asked, also when
\* the skipped question is the last one of the list.
SkippedFollowupNeverWritten ==
    (InIssueQuestions /\ prev.isq_index > 0) =>
        \A q \in DOMAIN store.isq :
            q # AnsweredIssueQuestion =>
                /\ store.isq[q] = prev.isq[q]
                /\ store.issue_specific[q] = prev.issue_specific[q]

\* the answer to the second pain question was also saved under the third,
\* which was skipped because the pain is not in the lower abdomen
AnswerSavedUnderSkippedLastQuestion ==
    /\ InIssueQuestions
    /\ AnsweredIssueQuestion = "pain_2"
    /\ ~ShouldAsk("pain_3", store.isq)
    /\ input.text # ""
    /\ store.isq["pain_3"] = input.text
    /\ store.issue_specific["pain_3"] = input.text
    /\ store.current_phase = "questionnaire"

\* ---------------------------------------------------------------------
\* Twin detection within a visit

\* C37: Twin detection is monotone within a visit: once has_twins is true
\* after the answer to question 5, 16 or 24 it stays true until the visit
\* reset, so that the twins family-history question (id 50) is asked
\* whenever twins were detected at one of those steps.
TwinsStayDetected ==
    (step = "turn" /\ created /\ ~resetRec.did /\ prev.has_twins) =>
        store.has_twins

\* a later scan answer that names no twins withdrew the detection of an
\* earlier step
TwinsDetectionWithdrawn ==
    /\ LaterTurnOfVisit
    /\ prev.has_twins
    /\ ~store.has_twins
    /\ prev.current_phase = "questionnaire"
    /\ QId(prev.current_question_index) \in {16, 24}
    /\ input.twins = "false"

\* ---------------------------------------------------------------------
\* The cursor after the recovery from an exception

\* the last turn raised in phase questionnaire and the except block saved
RecoveredInQuestionnaire ==
    /\ LaterTurnOfVisit
    /\ input.exc # "none"
    /\ prev.current_phase = "questionnaire"
    /\ prev.current_question_index < NumQuestions

\* C38: On the exception-recovery path in the questionnaire phase no
\* eligible question is passed over without having been prompted: wherever
\* the turn raised, the cursor after the recovery is the next eligible
\* question after the one prompted last, and the reply prompts it.
RecoveryPassesNoQuestion ==
    RecoveredInQuestionnaire =>
        /\ store.current_question_index =
               NextValidIndex(prev.current_question_index + 1, store)
        /\ reply.kind = "question" => reply.qid = QId(store.current_question_index)

\* the turn raised after its cursor had moved and the recovery moved it
\* again: the question in between was never prompted
RecoveryPassedOverQuestion ==
    /\ RecoveredInQuestionnaire
    /\ input.exc = "post"
    /\ store.current_question_index >
           NextValidIndex(prev.current_question_index + 1, store)
    /\ NextValidIndex(prev.current_question_index + 1, store) < NumQuestions
    /\ reply.kind = "question"
    /\ reply.qid = QId(store.current_question_index)

\* ---------------------------------------------------------------------
\* The response guard and the turn of a new voice message

\* delivery d carried a voice message whose id no earlier delivery had and
\* came to the response guard of handle_voice_message
NewVoiceMessageAtGuard(d) ==
    /\ hook[d].msg \in {"m1", "m2"}
    /\ hook[d].guard # ""

\* C39: Every inbound voice message with a previously unseen message id is
\* processed by exactly one engine turn when its download and transcription
\* succeed: the duplicate-response guard never keeps the turn of a distinct
\* new message of the same patient from running.
NewVoiceMessageGetsItsTurn ==
    \A d \in 1..NumDeliveries :
        NewVoiceMessageAtGuard(d) =>
            /\ hook[d].ran <= 1
            /\ hook[d].guard = "pass"

\* a new voice message arrived within the cooldown of the response to
\* another message and ended without an engine turn
NewMessageRefusedInCooldown ==
    \E d \in 1..NumDeliveries :
        /\ NewVoiceMessageAtGuard(d)
        /\ hook[d].guard = "refuse"
        /\ hook[d].pc = "done"
        /\ hook[d].ran = 0
        /\ lastResp.sent
        /\ lastResp.msg # hook[d].msg
        /\ hook[d].at - lastResp.at < ResponseCooldown

---------------------------------------------------------------------------
(* A turn in steps: process_patient_response loads the record, works on    *)
(* its own copy and writes at its end; the wait_for around the call can    *)
(* cancel it at any await before the write.                                *)

\* a variant of the load that stores a fresh record whatever it found
StoredAfterLoadAlways(rec0, exists) == InitializePatientData("t0")

\* lines 97-100: the load leaves the store alone unless the patient is
\* unknown, in which case create_patient writes the fresh record at once
StoredAfterLoad(rec0, exists) ==
    IF exists THEN rec0 ELSE InitializePatientData("t0")

\* lines 95-175: the load and the work on the copy in memory
LoadTurn ==
    /\ ~work.busy
    /\ \E pd \in {LoadedRecord("none")} :
       \E u0 \in InputsAt(pd) :
       \E plain \in {ProcessPatientResponse(store, created, u0)} :
       \E a \in AlertsFor(u0, plain) :
       \E out \in {IF a = "yellow" THEN plain
                   ELSE ProcessPatientResponse(store, created, WithAlert(u0, a))} :
           /\ TurnAllowed(pd, WithAlert(u0, a), out)
           /\ work' = [busy |-> TRUE, out |-> out, u |-> WithAlert(u0, a)]
    /\ store' = StoredAfterLoad(store, created)
    /\ created' = TRUE
    /\ step' = "turn_load"
    /\ prev' = store
    /\ UNCHANGED <<reply, emr, emrData, assessCalls, resetRec, devs, input,
                   resolverVars, hookVars, oracleVars>>

\* lines 178 and 235: the one update_patient of the turn, and the return
CommitTurn ==
    /\ work.busy
    /\ \E out \in {work.out} :
        /\ store' = IF out.saved THEN out.rec ELSE store
        /\ reply' = out.reply
        /\ emr' = IF out.reply.action = "generate_emr" THEN "queued" ELSE emr
        /\ emrData' = IF out.reply.action = "generate_emr" THEN NoEmrData ELSE emrData
        /\ assessCalls' = IF out.reset /\ out.saved THEN out.calls
                          ELSE assessCalls + out.calls
        /\ resetRec' = IF out.reset THEN [did |-> TRUE, rec |-> out.afterReset]
                       ELSE NoReset
    /\ step' = "turn"
    /\ prev' = store
    /\ devs' = devs + work.u.dev
    /\ input' = work.u
    /\ work' = NoWork
    /\ UNCHANGED <<created, resolverVars, hookVars, oracleVars>>

\* the processing timeout cancels the call before its write: the copy in
\* memory is dropped
CancelTurn ==
    /\ work.busy
    /\ work' = NoWork
    /\ step' = "turn_cancel"
    /\ prev' = store
    /\ UNCHANGED <<store, created, reply, emr, emrData, assessCalls, resetRec, devs,
                   input, resolverVars, hookVars, oracleVars>>

NextSteps == LoadTurn \/ CommitTurn \/ CancelTurn \/ EmrLoad \/ EmrWrite \/ EmrAbort

SpecSteps == Init /\ [][NextSteps]_vars

====
